---- MODULE Spec2Model ----
(***************************************************************************)
(* Verification model of the meditech-backend speech-to-record pipeline:   *)
(*   app/services/gemini_api.py     call_gemini_api, translate_with_gemini,*)
(*                                  extract_emr, generate_suggestions      *)
(*   app/services/transcription.py  run_pipeline_async,                    *)
(*                                  detect_language_from_audio             *)
(*   app/routes/asr_routes.py       transcribe_audio_route                 *)
(*   app/sockets.py                 the room handlers                      *)
(*                                                                         *)
(* Text is modelled as a sequence of tokens (words, " ", "\n", ":"), so    *)
(* that strip, lower, split and substring tests are computed, not assumed. *)
(***************************************************************************)
EXTENDS Integers, Sequences, FiniteSets, TLC

VARIABLES
    asr_models,  \* the process-wide model registry: is the key loaded
    \* ---- call_gemini_api (gemini_api.py:10-130)
    g_pc,        \* "call" | "post" | "sleep" | "done" | "raised"
    g_url,       \* GEMINI_API_URL configured?
    retries,     \* parameter retries
    attempt,     \* loop variable attempt
    delay,       \* local variable delay (rebound inside the loop)
    g_wait,      \* argument of the asyncio.sleep in progress
    g_trace,     \* one entry per HTTP attempt issued so far
    g_ret,       \* value returned to the caller
    \* ---- detect_language_from_audio (transcription.py:72-233)
    d_pc,        \* "idle" | "start" | "gather" | "done"
    d_in,        \* arguments (1-D array? samples, sr) and the configured window ms
    d_chunk,     \* number of leading samples given to both models
    d_run,       \* per model key: "none" | "running" | "finished" | "failed"
    d_result,    \* per model key: the value run_pipeline_async returned
    d_guess,     \* per model key: detected_lang_ml / detected_lang_en
    d_asked,     \* per model key: was detect_langs called on its text
    d_ret,       \* the returned language
    \* ---- extract_emr (gemini_api.py:163-226)
    x_pc,        \* "idle" | "call" | "await" | "done" | "raised"
    x_text,      \* parameter text
    x_gres,      \* what call_gemini_api returned
    x_emr,       \* the returned mapping
    \* ---- transcribe_audio_route (asr_routes.py:33-279)
    asr,         \* the frame of one request: its position, locals, calls made
    \* ---- the tasks in flight
    cur,         \* 0: one task alone; 1 | 2: which of two tasks holds the variables above
    parked,      \* the locals of the task that was suspended at its await
    \* ---- the rooms (sockets.py, __init__.py:20)
    active_rooms, \* the registry: room id -> its users, session id -> username
    sio_rooms,    \* the Socket.IO rooms: room id -> the sessions that entered it
    last_event,   \* the event handled last: its name, its session, its room id
    emitted       \* what the handler of that event emitted, in order

gvars == <<g_pc, g_url, retries, attempt, delay, g_wait, g_trace, g_ret>>

dvars == <<d_pc, d_in, d_chunk, d_run, d_result, d_guess, d_asked, d_ret>>

xvars == <<x_pc, x_text, x_gres, x_emr>>

sched == <<cur, parked>>

rvars == <<active_rooms, sio_rooms, last_event, emitted>>

vars == <<asr_models, gvars, dvars, xvars, asr, sched, rvars>>

\* what each component's steps leave alone
not_gvars == <<asr_models, dvars, xvars, asr, sched, rvars>>
not_dvars == <<asr_models, gvars, xvars, asr, sched, rvars>>
not_xvars == <<asr_models, gvars, dvars, asr, sched, rvars>>
not_asr == <<asr_models, gvars, dvars, xvars, sched, rvars>>
not_rvars == <<asr_models, gvars, dvars, xvars, asr, sched>>

\* two tasks are in flight
Concurrent == cur # 0

\* the set an outcome is drawn from: with two tasks in flight, a sample of it
Drawn(full, few) == IF Concurrent THEN few ELSE full

(***************************************************************************)
(* Bounds of the model.                                                    *)
(***************************************************************************)
MaxRetries == 2       \* largest retries argument explored
MaxRetryAfter == 3    \* largest integer Retry-After explored
MaxSamples == 3       \* longest audio sample explored
LongSample == 28      \* a sample longer than the window of 9 ms at 3000 Hz
MaxLines == 2         \* most lines in a model answer explored

(***************************************************************************)
(* Text helpers: str.strip(), str.lower(), len(), substring test.          *)
(***************************************************************************)
IsSpace(tok) == tok \in {" ", "\n"}

RECURSIVE LStrip(_)
LStrip(t) == IF t # <<>> /\ IsSpace(Head(t)) THEN LStrip(Tail(t)) ELSE t

RECURSIVE RStrip(_)
RStrip(t) ==
    IF t # <<>> /\ IsSpace(t[Len(t)]) THEN RStrip(SubSeq(t, 1, Len(t) - 1)) ELSE t

Strip(t) == RStrip(LStrip(t))

\* str.lower(), token by token; tokens not listed have no upper-case letter
LowerTok(tok) ==
    CASE tok = "EN" -> "en"
      [] tok = "ML" -> "ml"
      [] tok = "Error" -> "error"
      [] tok = "ALLERGIES" -> "allergies"
      [] tok = "Allergies" -> "allergies"
      [] tok = "Complaint" -> "complaint"
      [] tok = "Current" -> "current"
      [] tok = "History" -> "history"
      [] tok = "Illness" -> "illness"
      [] tok = "Medical" -> "medical"
      [] tok = "Medications" -> "medications"
      [] tok = "Past" -> "past"
      [] tok = "Presenting" -> "presenting"
      [] tok = "Note" -> "note"
      [] tok = "Not" -> "not"
      [] tok = "NOT" -> "not"
      [] tok = "MENTIONED" -> "mentioned"
      [] tok = "None" -> "none"
      [] tok = "N/A" -> "n/a"
      [] tok = "English" -> "english"
      [] tok = "Differential" -> "differential"
      [] tok = "Diagnosis" -> "diagnosis"
      [] tok = "Further" -> "further"
      [] tok = "Investigations" -> "investigations"
      [] tok = "Potential" -> "potential"
      [] tok = "Treatment" -> "treatment"
      [] tok = "Options" -> "options"
      [] tok = "Specialist" -> "specialist"
      [] tok = "Referrals" -> "referrals"
      [] tok = "Follow-up" -> "follow-up"
      [] tok = "Recommendations" -> "recommendations"
      [] tok = "Translation" -> "translation"
      [] OTHER -> tok

Lower(t) == [i \in 1..Len(t) |-> LowerTok(t[i])]

\* len(text): the number of characters
RECURSIVE CharLen(_)
CharLen(t) == IF t = <<>> THEN 0 ELSE Len(Head(t)) + CharLen(Tail(t))

\* pat in text
ContainsSeq(t, pat) ==
    \E i \in 1..(Len(t) - Len(pat) + 1) : SubSeq(t, i, i + Len(pat) - 1) = pat

\* the marker "Error:" the pipeline looks for in transcription text
ErrorMarker == <<"Error", ":">>

\* ":" in line
HasColon(t) == \E i \in 1..Len(t) : t[i] = ":"

FirstColon(t) == CHOOSE i \in 1..Len(t) : t[i] = ":" /\ \A j \in 1..(i - 1) : t[j] # ":"

\* line.split(":", 1)
BeforeColon(t) == SubSeq(t, 1, FirstColon(t) - 1)
AfterColon(t) == SubSeq(t, FirstColon(t) + 1, Len(t))

\* key.replace(':', '')
RECURSIVE RemoveColons(_)
RemoveColons(t) ==
    IF t = <<>> THEN <<>>
    ELSE IF Head(t) = ":" THEN RemoveColons(Tail(t))
    ELSE <<Head(t)>> \o RemoveColons(Tail(t))

\* text.split("\n"): the list of lines
RECURSIVE SplitLines(_)
SplitLines(t) ==
    IF \A i \in 1..Len(t) : t[i] # "\n" THEN <<t>>
    ELSE LET i == CHOOSE i \in 1..Len(t) :
                      t[i] = "\n" /\ \A j \in 1..(i - 1) : t[j] # "\n"
         IN <<SubSeq(t, 1, i - 1)>> \o SplitLines(SubSeq(t, i + 1, Len(t)))

\* "\n".join(lines)
RECURSIVE JoinLines(_)
JoinLines(ls) ==
    IF ls = <<>> THEN <<>>
    ELSE IF Len(ls) = 1 THEN ls[1]
    ELSE ls[1] \o <<"\n">> \o JoinLines(Tail(ls))

(***************************************************************************)
(* A dict is the sequence of its items <<key, value>> in insertion order.  *)
(***************************************************************************)
EmptyDict == <<>>
Keys(dict) == {dict[i][1] : i \in 1..Len(dict)}
Has(dict, k) == k \in Keys(dict)
Get(dict, k) == dict[CHOOSE i \in 1..Len(dict) : dict[i][1] = k][2]
Values(dict) == {dict[i][2] : i \in 1..Len(dict)}
\* dict[k] = v
Put(dict, k, v) ==
    IF Has(dict, k)
    THEN [i \in 1..Len(dict) |-> IF dict[i][1] = k THEN <<k, v>> ELSE dict[i]]
    ELSE Append(dict, <<k, v>>)

(***************************************************************************)
(* Values returned by call_gemini_api: None or the stripped text.          *)
(***************************************************************************)
NoneRet == [tag |-> "none", text |-> <<>>]
TextRet(t) == [tag |-> "text", text |-> t]
Pending == [tag |-> "pending", text |-> <<>>]

(***************************************************************************)
(* Outcomes of one HTTP attempt, as the service and transport decide them. *)
(*   ok          200, candidates[0].content.parts[0].text is a string      *)
(*   no_candidates / no_content / no_parts / no_text                       *)
(*               200, that level of the body is missing or empty          *)
(*   bad_shape   200, body is invalid JSON or has members of a wrong type  *)
(*               (json.JSONDecodeError, AttributeError: plain Exception)   *)
(*   non_json    200, content type is not JSON (aiohttp.ContentTypeError,  *)
(*               a ClientResponseError whose status is not 429 nor 5xx)    *)
(*   http4xx     client error status other than 429                        *)
(*   http429     rate limit, header Retry-After absent, an integer, or a   *)
(*               value int() rejects (an HTTP-date, "1.5")                 *)
(*   http5xx     server error status                                       *)
(*   timeout     asyncio.TimeoutError                                      *)
(*   conn_error  aiohttp.ClientError                                       *)
(*   unexpected  any other Exception                                       *)
(***************************************************************************)
RetryAfterSecs == {0, 1, MaxRetryAfter}
RetryAfterVals ==
    [form : {"absent", "nonint"}, secs : {0}] \cup [form : {"int"}, secs : RetryAfterSecs]
NoHeader == [form |-> "absent", secs |-> 0]

GeminiTexts == { <<>>, <<"ok">>, <<" ", "ok", "\n">> }

MissingKinds == {"no_candidates", "no_content", "no_parts", "no_text"}

PlainKinds == MissingKinds \cup
    {"bad_shape", "non_json", "http4xx", "http5xx", "timeout", "conn_error",
     "unexpected"}

Outcomes ==
    [kind : {"ok"}, text : GeminiTexts, ra : {NoHeader}]
    \cup [kind : PlainKinds, text : {<<>>}, ra : {NoHeader}]
    \cup [kind : {"http429"}, text : {<<>>}, ra : RetryAfterVals]

(***************************************************************************)
(* What the loop body does with one outcome (gemini_api.py:30-126).        *)
(* Result: [next, wait, delay, ret]                                        *)
(*   next  "sleep": asyncio.sleep(wait) then the next iteration            *)
(*         "done" : return ret     "raised": an exception escapes          *)
(***************************************************************************)
Step(next, wait, d, ret) == [next |-> next, wait |-> wait, delay |-> d, ret |-> ret]

\* int(e.headers.get("Retry-After", delay * 2)), line 92; "nonint" raises ValueError
RetryAfterParses(ra) == ra.form # "nonint"
RetryAfterValue(ra, d) == IF ra.form = "absent" THEN d * 2 ELSE ra.secs

\* a missing level of the body treated as a hard failure
OnMissing_HardFailure(a, r, d) == Step("done", 0, d, NoneRet)

\* lines 47-81: a missing level of the body
OnMissing(a, r, d) ==
    IF a < r THEN Step("sleep", d, d, Pending)
    ELSE Step("done", 0, d, NoneRet)            \* continue; loop ends; line 130

\* the 5xx branch giving up one attempt early (attempt < retries - 1)
OnResponseError_OffByOne(kind, ra, a, r, d) ==
    IF kind = "http429" /\ a < r THEN
        IF RetryAfterParses(ra)
        THEN Step("sleep", RetryAfterValue(ra, d), RetryAfterValue(ra, d), Pending)
        ELSE Step("raised", 0, d, Pending)
    ELSE IF kind = "http5xx" /\ a < r - 1 THEN Step("sleep", d, d * 2, Pending)
    ELSE Step("done", 0, d, NoneRet)

\* the retry branch taking every error status >= 400 but 429 (400 <= e.status)
OnResponseError_Retry4xx(kind, ra, a, r, d) ==
    IF kind = "http429" /\ a < r THEN
        IF RetryAfterParses(ra)
        THEN Step("sleep", RetryAfterValue(ra, d), RetryAfterValue(ra, d), Pending)
        ELSE Step("raised", 0, d, Pending)
    ELSE IF kind \in {"http4xx", "http5xx"} /\ a < r THEN Step("sleep", d, d * 2, Pending)
    ELSE Step("done", 0, d, NoneRet)

\* the 5xx branch sleeping without doubling the delay
OnResponseError_ConstantBackoff(kind, ra, a, r, d) ==
    IF kind = "http429" /\ a < r THEN
        IF RetryAfterParses(ra)
        THEN Step("sleep", RetryAfterValue(ra, d), RetryAfterValue(ra, d), Pending)
        ELSE Step("raised", 0, d, Pending)
    ELSE IF kind = "http5xx" /\ a < r THEN Step("sleep", d, d, Pending)
    ELSE Step("done", 0, d, NoneRet)

\* lines 87-104: except aiohttp.ClientResponseError
OnResponseError(kind, ra, a, r, d) ==
    IF kind = "http429" /\ a < r THEN
        IF RetryAfterParses(ra)
        THEN Step("sleep", RetryAfterValue(ra, d), RetryAfterValue(ra, d), Pending)
        ELSE Step("raised", 0, d, Pending)      \* ValueError inside the handler
    ELSE IF kind = "http5xx" /\ a < r THEN Step("sleep", d, d * 2, Pending)
    ELSE Step("done", 0, d, NoneRet)

\* lines 105-120: except asyncio.TimeoutError / except aiohttp.ClientError
OnTransportError(a, r, d) ==
    IF a < r THEN Step("sleep", d, d * 2, Pending)
    ELSE Step("done", 0, d, NoneRet)

\* sleeping after an unexpected error on the last attempt too
OnUnexpected_SleepsOnLast(a, r, d) == Step("sleep", d, d, Pending)

\* lines 121-126: except Exception
OnUnexpected(a, r, d) ==
    IF a >= r THEN Step("done", 0, d, NoneRet)
    ELSE Step("sleep", d, d, Pending)

\* a well-formed answer not ending the loop while attempts are left
Handle_ContinuesAfterOk(o, a, r, d) ==
    CASE o.kind = "ok" -> IF a < r THEN Step("sleep", d, d, Pending)
                          ELSE Step("done", 0, d, TextRet(Strip(o.text)))
      [] o.kind \in MissingKinds -> OnMissing(a, r, d)
      [] o.kind \in {"http4xx", "http429", "http5xx", "non_json"} ->
             OnResponseError(o.kind, o.ra, a, r, d)
      [] o.kind \in {"timeout", "conn_error"} -> OnTransportError(a, r, d)
      [] OTHER -> OnUnexpected(a, r, d)

Handle(o, a, r, d) ==
    CASE o.kind = "ok" -> Step("done", 0, d, TextRet(Strip(o.text)))   \* line 85
      [] o.kind \in MissingKinds -> OnMissing(a, r, d)
      [] o.kind \in {"http4xx", "http429", "http5xx", "non_json"} ->
             OnResponseError(o.kind, o.ra, a, r, d)
      [] o.kind \in {"timeout", "conn_error"} -> OnTransportError(a, r, d)
      [] OTHER -> OnUnexpected(a, r, d)

FewOutcomes ==
    { [kind |-> "ok", text |-> <<"ok">>, ra |-> NoHeader],
      [kind |-> "http5xx", text |-> <<>>, ra |-> NoHeader],
      [kind |-> "http429", text |-> <<>>, ra |-> [form |-> "int", secs |-> 1]] }

(***************************************************************************)
(* call_gemini_api as a process.                                           *)
(***************************************************************************)
\* lines 14-29: configuration lookup; no URL means return None at once
call_gemini_api_enter ==
    /\ g_pc = "call"
    /\ IF g_url
       THEN g_pc' = "post" /\ g_ret' = g_ret
       ELSE g_pc' = "done" /\ g_ret' = NoneRet
    /\ attempt' = 0
    /\ UNCHANGED <<g_url, retries, delay, g_wait, g_trace>>
    /\ UNCHANGED not_gvars

\* lines 30-126: one iteration, from session.post to the sleep or the return
call_gemini_api_attempt ==
    /\ g_pc = "post"
    /\ \E o \in Drawn(Outcomes, FewOutcomes) :
         LET h == Handle(o, attempt, retries, delay) IN
         /\ g_trace' = Append(g_trace,
                [attempt |-> attempt, delay |-> delay, out |-> o,
                 slept |-> (h.next = "sleep"), secs |-> h.wait])
         /\ g_pc' = h.next
         /\ g_wait' = h.wait
         /\ delay' = h.delay
         /\ g_ret' = h.ret
    /\ UNCHANGED <<g_url, retries, attempt>>
    /\ UNCHANGED not_gvars

\* the asyncio.sleep returns and range(retries + 1) yields the next attempt
call_gemini_api_wake ==
    /\ g_pc = "sleep"
    /\ IF attempt + 1 <= retries
       THEN g_pc' = "post" /\ g_ret' = g_ret
       ELSE g_pc' = "done" /\ g_ret' = NoneRet
    /\ attempt' = attempt + 1
    /\ g_wait' = 0
    /\ UNCHANGED <<g_url, retries, delay, g_trace>>
    /\ UNCHANGED not_gvars

(***************************************************************************)
(* run_pipeline_async (transcription.py:24-69).  The value returned is     *)
(* always a dict {"text": t}; the model keeps t.                           *)
(***************************************************************************)
ModelKeys == {"whisper_ml", "whisper_en"}

\* line 35: f"Error: Pipeline '{model_key}' not available."
NotAvailableText(key) ==
    <<"Error", ":", " ", "Pipeline", " ", "'", key, "'", " ", "not", " ", "available.">>

\* line 69: f"Error during transcription processing with '{model_key}'."
ProcessingErrorText(key) ==
    <<"Error", " ", "during", " ", "transcription", " ", "processing", " ",
      "with", " ", "'", key, "'.">>

\* what the model callable hands back, before normalisation
ModelTexts ==
    { <<>>,
      <<" ", "hi">>,
      <<"chest", " ", "pain">>,
      <<"Error", ":", " ", "pain">>,
      <<"no", " ", "Error", ":", " ", "seen">> }

PipelineOutcomes ==
    [type : {"dict_text"}, text : ModelTexts]
    \cup [type : {"str"}, text : {<<"chest", " ", "pain", "\n">>}]
    \cup [type : {"other"}, text : {<<"[0.1,", " ", "0.2]">>}]
    \cup [type : {"none", "unprintable", "raise"}, text : {<<>>}]

RunPipeline(loaded, key, o) ==
    IF ~loaded THEN NotAvailableText(key)                         \* lines 32-35
    ELSE CASE o.type = "raise" -> ProcessingErrorText(key)        \* lines 66-69
           [] o.type \in {"dict_text", "str", "other"} -> Strip(o.text)
           [] OTHER -> <<>>                                       \* lines 59, 62

FewPipelineOutcomes ==
    { [type |-> "dict_text", text |-> <<"chest", " ", "pain">>],
      [type |-> "raise", text |-> <<>>] }

\* removing the entry that is looked up
AfterGet_Pop(models, key) == [models EXCEPT ![key] = FALSE]

\* line 30 (and 117): asr_models.get(key) reads the registry; the dict is the
\* same afterwards, also for a key that is missing
AfterGet(models, key) == models

\* how the run ended: "ok", or the failure that run_pipeline_async reports
PipelineFailure(loaded, o) ==
    IF ~loaded THEN "not_loaded"                                  \* lines 32-35
    ELSE IF o.type = "raise" THEN "raise"                         \* lines 66-69
    ELSE "ok"

(***************************************************************************)
(* detect_language_from_audio (transcription.py:72-233).                   *)
(***************************************************************************)
MinTextLenForDetect == 10

(***************************************************************************)
(* Python float arithmetic (IEEE 754 binary64, round to nearest even) for  *)
(* line 98.  A positive float is [m, k]: m the significand as a sequence   *)
(* of bits, most significant first and without leading zeros, at most      *)
(* Significand bits long; the value is m * 2^(-k).  Zero has no bits.       *)
(* Long significands are multiplied in limbs of LimbBits bits, least       *)
(* significant limb first.                                                 *)
(*                                                                         *)
(* With(v, F) is F(v) with v evaluated once: an argument that is a long    *)
(* sequence is bound this way before it is indexed bit by bit.             *)
(***************************************************************************)
Significand == 53

LimbBits == 14

FloatZero == [m |-> <<>>, k |-> 0]

With(v, F(_)) == CHOOSE r \in {F(x) : x \in {v}} : TRUE

RECURSIVE Pow2(_)
Pow2(e) ==
    IF e = 0 THEN 1
    ELSE With(Pow2(e \div 2), LAMBDA h : IF e % 2 = 0 THEN h * h ELSE 2 * h * h)

\* 2^e mod d
RECURSIVE Pow2Mod(_, _)
Pow2Mod(e, d) ==
    IF e = 0 THEN 1 % d
    ELSE With(Pow2Mod(e \div 2, d),
              LAMBDA h : IF e % 2 = 0 THEN (h * h) % d ELSE (2 * ((h * h) % d)) % d)

\* the number of bits of a natural number
BitLen(x) == CHOOSE n \in 0..30 : x < Pow2(n) /\ (n = 0 \/ Pow2(n - 1) <= x)

\* the bits of a natural number, most significant first
IntBits(x) == With(BitLen(x), LAMBDA len : [i \in 1..len |-> (x \div Pow2(len - i)) % 2])

\* the number whose bits are b[lo..hi]
RECURSIVE BitsVal(_, _, _)
BitsVal(b, lo, hi) ==
    IF lo > hi THEN 0 ELSE 2 * BitsVal(b, lo, hi - 1) + b[hi]

StripZeros(bits) ==
    With(bits, LAMBDA b :
        IF \A i \in 1..Len(b) : b[i] = 0 THEN <<>>
        ELSE SubSeq(b, CHOOSE i \in 1..Len(b) : b[i] = 1 /\ \A j \in 1..(i - 1) : b[j] = 0,
                    Len(b)))

\* bits + 1
IncBits(bits) ==
    With(bits, LAMBDA b :
        IF \A i \in 1..Len(b) : b[i] = 1 THEN <<1>> \o [i \in 1..Len(b) |-> 0]
        ELSE With(CHOOSE i \in 1..Len(b) : b[i] = 0 /\ \A j \in (i + 1)..Len(b) : b[j] = 1,
                  LAMBDA last0 :
                      [i \in 1..Len(b) |->
                          IF i < last0 THEN b[i] ELSE IF i = last0 THEN 1 ELSE 0]))

ToLimbs(bits) ==
    With(bits, LAMBDA b :
        [j \in 1..((Len(b) + LimbBits - 1) \div LimbBits) |->
            BitsVal(b,
                    IF Len(b) - LimbBits * j + 1 < 1 THEN 1 ELSE Len(b) - LimbBits * j + 1,
                    Len(b) - LimbBits * (j - 1))])

FromLimbs(limbs) ==
    With(limbs, LAMBDA l :
        StripZeros([i \in 1..(LimbBits * Len(l)) |->
            (l[(LimbBits * Len(l) - i) \div LimbBits + 1]
                 \div Pow2((LimbBits * Len(l) - i) % LimbBits)) % 2]))

\* l * x + carry, in limbs, for a natural number x below 2^16
RECURSIVE MulLimbs(_, _, _)
MulLimbs(limbs, x, carry) ==
    With(<<limbs, carry>>, LAMBDA a :
        IF a[1] = <<>>
        THEN IF a[2] = 0 THEN <<>>
             ELSE <<a[2] % Pow2(LimbBits)>> \o MulLimbs(<<>>, x, a[2] \div Pow2(LimbBits))
        ELSE <<(Head(a[1]) * x + a[2]) % Pow2(LimbBits)>>
                 \o MulLimbs(Tail(a[1]), x, (Head(a[1]) * x + a[2]) \div Pow2(LimbBits)))

\* b * x, most significant bit first
MulBits(b, x) == FromLimbs(MulLimbs(ToLimbs(b), x, 0))

RECURSIVE LimbsVal(_)
LimbsVal(limbs) ==
    With(limbs, LAMBDA l :
        IF l = <<>> THEN 0 ELSE Head(l) + Pow2(LimbBits) * LimbsVal(Tail(l)))

BitsToInt(b) == LimbsVal(ToLimbs(b))

\* the first cnt bits of r / d after the binary point, for 0 <= r < d
FracBits(r, d, cnt) ==
    [i \in 1..cnt |-> (2 * ((r * Pow2Mod(i - 1, d)) % d)) \div d]

\* what is left of r / d after those bits
FracRem(r, d, cnt) == (r * Pow2Mod(cnt, d)) % d

\* s rounded to its first Significand bits, ties to the even significand;
\* more: something non-zero lies below the last bit of s
RoundBits(s, more) ==
    With(SubSeq(s, 1, Significand), LAMBDA keep :
        IF /\ s[Significand + 1] = 1
           /\ \/ more
              \/ \E i \in (Significand + 2)..Len(s) : s[i] = 1
              \/ keep[Significand] = 1
        THEN IncBits(keep)
        ELSE keep)

\* the float nearest to bits * 2^(-k) (+ something below the last bit when
\* more)
RoundFloat(bits, k, more) ==
    With(StripZeros(bits), LAMBDA s :
        IF s = <<>> THEN FloatZero
        ELSE IF Len(s) <= Significand THEN [m |-> s, k |-> k]
        ELSE With(RoundBits(s, more), LAMBDA r :
                 IF Len(r) > Significand
                 THEN [m |-> SubSeq(r, 1, Significand), k |-> k - (Len(s) - Significand) - 1]
                 ELSE [m |-> r, k |-> k - (Len(s) - Significand)]))

\* a / d for natural numbers a and d > 0: int / int is correctly rounded
FloatDiv(a, d) ==
    With(Significand + BitLen(d), LAMBDA cnt :
        RoundFloat(IntBits(a \div d) \o FracBits(a % d, d, cnt), cnt,
                   FracRem(a % d, d, cnt) # 0))

\* f * x for a natural number x (exact as a float)
FloatMul(float, x) == With(float, LAMBDA f : RoundFloat(MulBits(f.m, x), f.k, FALSE))

\* int(f): the integer part
IntOfFloat(float) ==
    With(float, LAMBDA f :
        IF f.k <= 0 THEN BitsToInt(f.m) * Pow2(-f.k)
        ELSE IF f.k >= Len(f.m) THEN 0
        ELSE BitsToInt(SubSeq(f.m, 1, Len(f.m) - f.k)))

Abs(x) == IF x < 0 THEN -x ELSE x

\* line 98: int(chunk_size_ms / 1000 * sr): a float division, a float
\* product, and the truncation toward zero
ChunkSizeSamples(ms, sr) ==
    With(IntOfFloat(FloatMul(FloatDiv(Abs(ms), 1000), Abs(sr))),
         LAMBDA mag : IF (ms < 0) # (sr < 0) THEN -mag ELSE mag)

\* lines 99-107: the number of leading samples used
ChunkLen(n, ms, sr) ==
    LET c == ChunkSizeSamples(ms, sr) IN
    IF c <= 0 THEN n ELSE IF c >= n THEN n ELSE c

\* lines 132-156: the text kept from one model's result
DetectText(t) == IF ContainsSeq(t, ErrorMarker) THEN <<>> ELSE t

\* lines 163, 178: is detect_langs called on this text
AsksClassifier(t) == t # <<>> /\ CharLen(t) >= MinTextLenForDetect

\* what detect_langs does: a top-ranked language, an empty list, or an exception
ClassifierOutcomes == {"ml", "en", "fr", "empty", "LangDetectException", "Exception"}

\* lines 164-175, 179-189: langs[0].lang, or None
Guess(c) == IF c \in {"ml", "en", "fr"} THEN c ELSE "null"

\* the last case returning "ml"
Decide_DefaultMalayalam(ml, en) ==
    IF ml = "ml" /\ en # "en" THEN "ml"
    ELSE IF en = "en" /\ ml # "ml" THEN "en"
    ELSE IF ml = "ml" /\ en = "ml" THEN "ml"
    ELSE IF ml = "en" /\ en = "en" THEN "en"
    ELSE IF ml = "ml" /\ en = "null" THEN "ml"
    ELSE IF en = "en" /\ ml = "null" THEN "en"
    ELSE "ml"

\* returning the classifier's language code itself when the ML output has one
Decide_ReturnsGuess(ml, en) ==
    IF ml # "null" /\ en # "en" THEN ml
    ELSE IF en = "en" /\ ml # "ml" THEN "en"
    ELSE IF ml = "ml" /\ en = "ml" THEN "ml"
    ELSE IF ml = "en" /\ en = "en" THEN "en"
    ELSE IF ml = "ml" /\ en = "null" THEN "ml"
    ELSE IF en = "en" /\ ml = "null" THEN "en"
    ELSE "en"

\* the first case not looking at the EN output
Decide_MalayalamOutputAlone(ml, en) ==
    IF ml = "ml" THEN "ml"
    ELSE IF en = "en" /\ ml # "ml" THEN "en"
    ELSE IF ml = "ml" /\ en = "ml" THEN "ml"
    ELSE IF ml = "en" /\ en = "en" THEN "en"
    ELSE IF ml = "ml" /\ en = "null" THEN "ml"
    ELSE IF en = "en" /\ ml = "null" THEN "en"
    ELSE "en"

\* lines 192-229: the decision logic, cases 1 to 7
Decide(ml, en) ==
    IF ml = "ml" /\ en # "en" THEN "ml"
    ELSE IF en = "en" /\ ml # "ml" THEN "en"
    ELSE IF ml = "ml" /\ en = "ml" THEN "ml"
    ELSE IF ml = "en" /\ en = "en" THEN "en"
    ELSE IF ml = "ml" /\ en = "null" THEN "ml"
    ELSE IF en = "en" /\ ml = "null" THEN "en"
    ELSE "en"

NoInput == [one_dim |-> TRUE, n |-> 0, sr |-> 0, ms |-> 0]
NoRuns == [k \in ModelKeys |-> "none"]
NoTexts == [k \in ModelKeys |-> <<>>]
NoGuesses == [k \in ModelKeys |-> "null"]
NotAsked == [k \in ModelKeys |-> FALSE]

\* lines 85-125: input checks, the chunk, the registry check, both tasks created
detect_enter ==
    /\ d_pc = "start"
    /\ d_chunk' = IF d_in.one_dim /\ d_in.n > 0 /\ d_in.sr > 0
                  THEN ChunkLen(d_in.n, d_in.ms, d_in.sr) ELSE 0
    /\ IF \/ ~d_in.one_dim \/ d_in.n = 0                        \* lines 90-92
          \/ d_in.sr <= 0                                     \* lines 94-96
          \/ d_chunk' = 0                                     \* lines 110-112
          \/ \E k \in ModelKeys : ~asr_models[k]               \* lines 117-119
       THEN d_pc' = "done" /\ d_ret' = "en" /\ d_run' = d_run
       ELSE /\ d_pc' = "gather" /\ d_ret' = d_ret
            /\ d_run' = [k \in ModelKeys |-> "running"]       \* lines 124-128
    /\ asr_models' = IF d_in.one_dim /\ d_in.n > 0 /\ d_in.sr > 0
                      THEN AfterGet(AfterGet(asr_models, "whisper_ml"), "whisper_en")
                      ELSE asr_models
    /\ UNCHANGED <<d_in, d_result, d_guess, d_asked>>
    /\ UNCHANGED <<gvars, xvars, asr, sched, rvars>>

\* one of the two run_pipeline_async tasks of the gather finishes
detect_run_finish(k) ==
    /\ d_pc = "gather"
    /\ d_run[k] = "running"
    /\ \E o \in Drawn(PipelineOutcomes, FewPipelineOutcomes) :
         /\ d_result' = [d_result EXCEPT ![k] = RunPipeline(asr_models[k], k, o)]
         /\ d_run' = [d_run EXCEPT ![k] =
                         IF PipelineFailure(asr_models[k], o) = "ok"
                         THEN "finished" ELSE "failed"]
    /\ asr_models' = AfterGet(asr_models, k)
    /\ UNCHANGED <<d_pc, d_in, d_chunk, d_guess, d_asked, d_ret>>
    /\ UNCHANGED <<gvars, xvars, asr, sched, rvars>>

\* deciding as soon as one of the two runs is over
detect_resolve_FirstCompleted ==
    /\ d_pc = "gather"
    /\ \E k \in ModelKeys : d_run[k] \in {"finished", "failed"}
    /\ LET text == [k \in ModelKeys |-> DetectText(d_result[k])]
           asks == [k \in ModelKeys |-> AsksClassifier(text[k])]
       IN \E c \in [ModelKeys -> Drawn(ClassifierOutcomes, {"ml", "en"}) \cup {"not called"}] :
            /\ \A k \in ModelKeys : (c[k] = "not called") <=> ~asks[k]
            /\ d_asked' = asks
            /\ d_guess' = [k \in ModelKeys |-> Guess(c[k])]
            /\ d_ret' = Decide(d_guess'["whisper_ml"], d_guess'["whisper_en"])
    /\ d_pc' = "done"
    /\ UNCHANGED <<d_in, d_chunk, d_run, d_result>>
    /\ UNCHANGED not_dvars

\* lines 129-229: the gather returns; texts, classification, decision
detect_resolve ==
    /\ d_pc = "gather"
    /\ \A k \in ModelKeys : d_run[k] \in {"finished", "failed"}
    /\ LET text == [k \in ModelKeys |-> DetectText(d_result[k])]
           asks == [k \in ModelKeys |-> AsksClassifier(text[k])]
       IN \E c \in [ModelKeys -> Drawn(ClassifierOutcomes, {"ml", "en"}) \cup {"not called"}] :
            /\ \A k \in ModelKeys : (c[k] = "not called") <=> ~asks[k]
            /\ d_asked' = asks
            /\ d_guess' = [k \in ModelKeys |-> Guess(c[k])]
            /\ d_ret' = Decide(d_guess'["whisper_ml"], d_guess'["whisper_en"])
    /\ d_pc' = "done"
    /\ UNCHANGED <<d_in, d_chunk, d_run, d_result>>
    /\ UNCHANGED not_dvars

DetectIdle ==
    /\ d_pc = "idle"
    /\ d_in = NoInput
    /\ d_chunk = 0 /\ d_run = NoRuns /\ d_result = NoTexts
    /\ d_guess = NoGuesses /\ d_asked = NotAsked /\ d_ret = "pending"

NextDetect ==
    \/ detect_enter
    \/ \E k \in ModelKeys : detect_run_finish(k)
    \/ detect_resolve

(***************************************************************************)
(* extract_emr (gemini_api.py:163-226).                                    *)
(***************************************************************************)
\* lines 193-196: required_keys, in list order
required_keys ==
    << <<"Presenting", " ", "Complaint">>,
       <<"History", " ", "of", " ", "Presenting", " ", "Illness">>,
       <<"Past", " ", "Medical", " ", "History">>,
       <<"Current", " ", "Medications">>,
       <<"Allergies">> >>

NotMentioned == <<"Not", " ", "mentioned">>

InList(list, x) == \E i \in 1..Len(list) : list[i] = x

\* next((req_key for req_key in required if req_key.lower() == k.lower()), None)
HasMatch(required, k) == \E i \in 1..Len(required) : Lower(required[i]) = Lower(k)
MatchedKey(required, k) ==
    required[CHOOSE i \in 1..Len(required) :
                 /\ Lower(required[i]) = Lower(k)
                 /\ \A j \in 1..(i - 1) : Lower(required[j]) # Lower(k)]

\* a later line for a key replacing the value of an earlier one
ParseLine_LastWins(dict, required, rawline) ==
    LET line == Strip(rawline) IN
    IF ~HasColon(line) THEN dict
    ELSE LET key == Strip(BeforeColon(line))
             value == Strip(AfterColon(line))
             normalized_key == Strip(RemoveColons(key))
         IN IF HasMatch(required, normalized_key)
            THEN Put(dict, MatchedKey(required, normalized_key), value)
            ELSE dict

\* lines 201-217: what one line of the answer does to the mapping
ParseLine(dict, required, rawline) ==
    LET line == Strip(rawline) IN
    IF ~HasColon(line) THEN dict                                  \* lines 216-217
    ELSE LET key == Strip(BeforeColon(line))
             value == Strip(AfterColon(line))
             normalized_key == Strip(RemoveColons(key))
         IN IF HasMatch(required, normalized_key)
               /\ ~Has(dict, MatchedKey(required, normalized_key))
            THEN Put(dict, MatchedKey(required, normalized_key), value)
            ELSE IF InList(required, key) /\ ~Has(dict, key)
            THEN Put(dict, key, value)
            ELSE dict                                             \* line 215

\* lines 200-217: for line in result.strip().split("\n")
RECURSIVE ParseLines(_, _, _)
ParseLines(dict, required, lines) ==
    IF lines = <<>> THEN dict
    ELSE ParseLines(ParseLine(dict, required, Head(lines)), required, Tail(lines))

\* the default filled in only for the first required key
FillMissing_FirstKeyOnly(dict, required, default) ==
    IF required = <<>> \/ Has(dict, Head(required)) THEN dict
    ELSE Put(dict, Head(required), default)

\* lines 222-224 (and 288-290): every required key absent so far gets the default
RECURSIVE FillMissing(_, _, _)
FillMissing(dict, required, default) ==
    IF required = <<>> THEN dict
    ELSE FillMissing(IF Has(dict, Head(required)) THEN dict
                     ELSE Put(dict, Head(required), default),
                     Tail(required), default)

\* no defaults filled in when call_gemini_api returned nothing
ParseAnswer_EmptyOnFailure(gres, required, default) ==
    IF gres.tag = "text" /\ gres.text # <<>>
    THEN FillMissing(ParseLines(EmptyDict, required, SplitLines(Strip(gres.text))),
                     required, default)
    ELSE EmptyDict

\* lines 190-226, given what call_gemini_api returned (None or text)
ParseAnswer(gres, required, default) ==
    FillMissing(
        IF gres.tag = "text" /\ gres.text # <<>>                  \* if result:
        THEN ParseLines(EmptyDict, required, SplitLines(Strip(gres.text)))
        ELSE EmptyDict,
        required, default)

\* lines 165-167: does extract_emr reach its call_gemini_api call
ExtractEmrCalls(text) == text # <<>>

\* the value extract_emr returns when call_gemini_api returned gres
ExtractEmr(text, gres) ==
    IF ~ExtractEmrCalls(text) THEN EmptyDict
    ELSE ParseAnswer(gres, required_keys, NotMentioned)

\* lines of a model answer to the record prompt
EmrLines ==
    { <<"Allergies", ":", " ", "penicillin">>,
      <<" ", "ALLERGIES", " ", ":", "None">>,
      <<"Presenting", " ", "Complaint", ":", " ", "pain", ":", " ", "severe">>,
      <<"Past", " ", "Medical", " ", "History", ":", " ", "N/A">>,
      <<"Current", " ", "Medications", ":", " ", "NOT", " ", "MENTIONED">>,
      <<"Allergies", ":">>,
      <<"Note", ":", " ", "pain">>,
      <<"garbage">>,
      <<>> }

LineLists(S) == UNION {[1..n -> S] : n \in 0..MaxLines}

\* what call_gemini_api can hand to its caller: None, text.strip(), or the
\* ValueError of line 92
GeminiResult(S) ==
    {[tag |-> "none", text |-> <<>>], [tag |-> "raise", text |-> <<>>]}
    \cup {[tag |-> "text", text |-> Strip(JoinLines(ls))] : ls \in LineLists(S)}

\* extract_emr as a process: the call, then the return
extract_emr_call ==
    /\ x_pc = "call"
    /\ IF ExtractEmrCalls(x_text)
       THEN x_pc' = "await" /\ x_emr' = x_emr
       ELSE x_pc' = "done" /\ x_emr' = ExtractEmr(x_text, Pending)
    /\ UNCHANGED <<x_text, x_gres>>
    /\ UNCHANGED not_xvars

extract_emr_return ==
    /\ x_pc = "await"
    /\ \E gres \in GeminiResult(EmrLines) :
         /\ x_gres' = gres
         /\ IF gres.tag = "raise"
            THEN x_pc' = "raised" /\ x_emr' = x_emr
            ELSE x_pc' = "done" /\ x_emr' = ExtractEmr(x_text, gres)
    /\ UNCHANGED x_text
    /\ UNCHANGED not_xvars

ExtractIdle ==
    x_pc = "idle" /\ x_text = <<>> /\ x_gres = Pending /\ x_emr = EmptyDict

NextExtract == extract_emr_call \/ extract_emr_return

(***************************************************************************)
(* translate_with_gemini (gemini_api.py:133-161).                          *)
(***************************************************************************)
HasPrefix(t, pre) == Len(t) >= Len(pre) /\ SubSeq(t, 1, Len(pre)) = pre

\* the length of the label matched at the head of t, 0 when none matches:
\* (english translation:|---) under re.IGNORECASE
LabelLen(t) ==
    IF HasPrefix(Lower(t), <<"english", " ", "translation", ":">>) THEN 4
    ELSE IF HasPrefix(t, <<"---">>) THEN 1
    ELSE 0

\* line 157: re.sub(r'^(english translation:|---)\s*', '', text,
\*                  flags=re.IGNORECASE | re.MULTILINE)
\* line_start: is the position at the start of the text or just after "\n"
RECURSIVE RemoveLabels(_, _)
RemoveLabels(t, line_start) ==
    IF t = <<>> THEN <<>>
    ELSE IF line_start /\ LabelLen(t) > 0
    THEN LET rest == SubSeq(t, LabelLen(t) + 1, Len(t))
             after == LStrip(rest)
             eaten == Len(rest) - Len(after)
         IN RemoveLabels(after, eaten > 0 /\ rest[eaten] = "\n")
    ELSE <<Head(t)>> \o RemoveLabels(Tail(t), Head(t) = "\n")

TranslationUnavailable == <<"Translation", " ", "unavailable">>

\* the value translate_with_gemini returns for non-empty text when
\* call_gemini_api returned gres (None or text)
TranslateWithGemini(gres) ==
    IF gres.tag = "text" /\ gres.text # <<>>                      \* if translated:
    THEN Strip(RemoveLabels(gres.text, TRUE))
    ELSE TranslationUnavailable

\* lines of a model answer to the translation prompt
TranslationLines ==
    { <<"English", " ", "Translation", ":", " ", "chest", " ", "pain">>,
      <<"medicine", " ", "unavailable">>,
      <<"Error", ":", " ", "busy">>,
      <<"---">> }

(***************************************************************************)
(* generate_suggestions (gemini_api.py:229-292).                           *)
(***************************************************************************)
\* lines 261-264: required_suggestion_keys, in list order
required_suggestion_keys ==
    << <<"Differential", " ", "Diagnosis">>,
       <<"Further", " ", "Investigations">>,
       <<"Potential", " ", "Treatment", " ", "Options">>,
       <<"Specialist", " ", "Referrals", " ", "(if", " ", "applicable)">>,
       <<"Follow-up", " ", "Recommendations">> >>

NotSpecified == <<"Not", " ", "specified">>

\* returning {} for a record in which any value is the sentinel
GenerateSuggestionsCalls_AnySentinelBlocks(emr) ==
    /\ emr # EmptyDict
    /\ \A i \in 1..Len(emr) : Lower(emr[i][2]) # <<"not", " ", "mentioned">>

\* lines 231-238: does generate_suggestions reach its call_gemini_api call
GenerateSuggestionsCalls(emr) ==
    /\ emr # EmptyDict
    /\ ~(\A i \in 1..Len(emr) : Lower(emr[i][2]) = <<"not", " ", "mentioned">>)
    /\ \E i \in 1..Len(emr) : Lower(emr[i][2]) # <<"not", " ", "mentioned">>

\* the value generate_suggestions returns when call_gemini_api returned gres;
\* lines 268-283 parse as lines 200-217 do (the key holds no colon after the split)
GenerateSuggestions(emr, gres) ==
    IF ~GenerateSuggestionsCalls(emr) THEN EmptyDict
    ELSE ParseAnswer(gres, required_suggestion_keys, NotSpecified)

\* lines of a model answer to the suggestions prompt
SuggestionLines ==
    { <<"differential", " ", "diagnosis", ":", " ", "angina">>,
      <<"garbage">> }

(***************************************************************************)
(* transcribe_audio_route (asr_routes.py:33-279).  asr is the frame of one *)
(* request; an action runs the coroutine from one await to the next.       *)
(***************************************************************************)
ALLOWED_LANGUAGES == { <<"en">>, <<"ml">> }

TARGET_SAMPLE_RATE == 16000
CHUNK_SIZE_MS == 30000

Info(msg) == << << <<"info">>, <<msg>> >> >>
Error(msg) == << << <<"error">>, <<msg>> >> >>

NoResponse == [status |-> "none"]

\* comparing values without str.lower()
IsMeaningfulEmr_CaseSensitive(emr) ==
    \E i \in 1..Len(emr) :
        /\ emr[i][2] # <<>>
        /\ emr[i][2] \notin { <<"not", " ", "mentioned">>, <<"none">>, <<"n/a">>, <<>> }

\* lines 208-211: is_meaningful_emr
IsMeaningfulEmr(emr) ==
    \E i \in 1..Len(emr) :
        /\ emr[i][2] # <<>>
        /\ Lower(emr[i][2]) \notin { <<"not", " ", "mentioned">>, <<"none">>, <<"n/a">>, <<>> }

\* a request that ends with an HTTP error status
Abort(f, code) == [f EXCEPT !.pc = "failed", !.status = code]

\* the call of f(...) and, when it gets there, of call_gemini_api
Calling(f, names) == [f EXCEPT !.calls = @ \o names]

\* lines 242-252: the response object
Respond(f) ==
    [f EXCEPT !.pc = "responded", !.status = 200,
              !.response = [status |-> "success",
                            detection_method |-> f.detection_method,
                            effective_language |-> f.effective_language,
                            raw_transcription |-> f.raw_transcription,
                            processed_text |-> f.final_english_text,
                            emr |-> f.emr_data,
                            suggestions |-> f.suggestions]]

\* accepting the code before str.lower().strip() only
Validate_NoNormalisation(f) ==
    IF ~f.form.has_audio THEN Abort(f, 400)
    ELSE IF ~f.form.has_filename THEN Abort(f, 400)
    ELSE IF ~f.form.type_allowed THEN Abort(f, 415)
    ELSE IF f.form.language.present /\ f.form.language.text # <<>>
    THEN IF f.form.language.text \in ALLOWED_LANGUAGES
         THEN [f EXCEPT !.pc = "load", !.effective_language = f.form.language.text[1],
                        !.detection_method = "specified"]
         ELSE [f EXCEPT !.pc = "load"]
    ELSE [f EXCEPT !.pc = "load"]

\* lines 42-71: the checks made before any processing
Validate(f) ==
    IF ~f.form.has_audio THEN Abort(f, 400)                       \* lines 42-44
    ELSE IF ~f.form.has_filename THEN Abort(f, 400)               \* lines 49-51
    ELSE IF ~f.form.type_allowed THEN Abort(f, 415)               \* lines 54-58
    ELSE IF f.form.language.present /\ f.form.language.text # <<>>
    THEN LET specified_language == Strip(Lower(f.form.language.text)) IN
         IF specified_language \in ALLOWED_LANGUAGES
         THEN [f EXCEPT !.pc = "load", !.effective_language = specified_language[1],
                        !.detection_method = "specified"]
         ELSE Abort(f, 400)                                       \* lines 69-71
    ELSE [f EXCEPT !.pc = "load"]

\* giving the skipped record the required keys, each with the sentinel
AfterText_SentinelRecord(f) ==
    IF f.final_english_text # <<>> /\ ~ContainsSeq(f.final_english_text, ErrorMarker)
    THEN Calling([f EXCEPT !.pc = "extract_emr"], <<"extract_emr", "call_gemini_api">>)
    ELSE Respond([f EXCEPT
             !.emr_data = FillMissing(Info("EMR not generated due to issues in prior steps."),
                                      required_keys, NotMentioned),
             !.suggestions = Info("Suggestions not generated due to issues in prior steps.")])

\* calling extract_emr whatever the canonical text is
AfterText_AlwaysExtracts(f) ==
    Calling([f EXCEPT !.pc = "extract_emr"], <<"extract_emr", "call_gemini_api">>)

\* lines 183-252, from the canonical text on: extract_emr is called, or the
\* record and the suggestions are the informational ones and the response is built
AfterText(f) ==
    IF f.final_english_text # <<>> /\ ~ContainsSeq(f.final_english_text, ErrorMarker)
    THEN Calling([f EXCEPT !.pc = "extract_emr"], <<"extract_emr", "call_gemini_api">>)
    ELSE Respond([f EXCEPT
             !.emr_data = Info("EMR not generated due to issues in prior steps."),
             !.suggestions = Info("Suggestions not generated due to issues in prior steps.")])

\* running the English model whatever the language is
StartTranscription_EnglishModel(f) ==
    IF f.effective_language = "ml"
    THEN Calling([f EXCEPT !.pc = "run_pipeline_async", !.transcription_model_key = "whisper_en"],
                 <<"run_pipeline_async:whisper_en">>)
    ELSE Calling([f EXCEPT !.pc = "run_pipeline_async", !.effective_language = "en",
                           !.transcription_model_key = "whisper_en"],
                 <<"run_pipeline_async:whisper_en">>)

\* lines 133-136 / 162-169: the transcription run for the language is started
StartTranscription(f) ==
    IF f.effective_language = "ml"
    THEN Calling([f EXCEPT !.pc = "run_pipeline_async", !.transcription_model_key = "whisper_ml"],
                 <<"run_pipeline_async:whisper_ml">>)
    ELSE Calling([f EXCEPT !.pc = "run_pipeline_async", !.effective_language = "en",
                           !.transcription_model_key = "whisper_en"],
                 <<"run_pipeline_async:whisper_en">>)

\* going on with the text whatever it carries
Transcribed_NoMarkerCheck(f, text) ==
    LET raw == Strip(text)
        g == [f EXCEPT !.raw_transcription = raw,
                       !.final_english_text = IF f.effective_language = "ml" THEN <<>> ELSE raw]
    IN IF f.effective_language = "ml" /\ raw # <<>>
       THEN Calling([g EXCEPT !.pc = "translate_with_gemini"],
                    <<"translate_with_gemini", "call_gemini_api">>)
       ELSE AfterText(g)

\* translating the raw text of either language
Transcribed_AlwaysTranslates(f, text) ==
    LET raw == Strip(text)
        g == [f EXCEPT !.raw_transcription = raw,
                       !.final_english_text = IF f.effective_language = "ml" THEN <<>> ELSE raw]
    IN IF ContainsSeq(raw, ErrorMarker) THEN Abort(g, 500)
       ELSE IF raw # <<>>
       THEN Calling([g EXCEPT !.pc = "translate_with_gemini"],
                    <<"translate_with_gemini", "call_gemini_api">>)
       ELSE AfterText(g)

\* lines 137-179: the transcription has returned text
Transcribed(f, text) ==
    LET raw == Strip(text)
        g == [f EXCEPT !.raw_transcription = raw,
                       !.final_english_text = IF f.effective_language = "ml" THEN <<>> ELSE raw]
    IN IF ContainsSeq(raw, ErrorMarker) THEN Abort(g, 500)        \* lines 140-143, 173-175
       ELSE IF f.effective_language = "ml" /\ raw # <<>>
       THEN Calling([g EXCEPT !.pc = "translate_with_gemini"],
                    <<"translate_with_gemini", "call_gemini_api">>)
       ELSE AfterText(g)

\* carrying the text of a failed translation forward as the canonical text
Translated_KeepsMessage(f, gres) ==
    LET t == TranslateWithGemini(gres)
    IN AfterText([f EXCEPT !.translated = gres,
                           !.final_english_text = IF gres.tag = "raise" THEN <<>> ELSE t])

\* asking for the translation once more when the remote call returned None
Translated_TriesAgain(f, gres) ==
    IF gres.tag = "none"
    THEN Calling(f, <<"translate_with_gemini", "call_gemini_api">>)
    ELSE LET t == TranslateWithGemini(gres)
             unusable == \/ gres.tag = "raise"
                         \/ t = <<>>
                         \/ ContainsSeq(Lower(t), <<"unavailable">>)
         IN AfterText([f EXCEPT !.translated = gres,
                                !.final_english_text = IF unusable THEN <<>> ELSE t])

\* lines 152-160: translate_with_gemini has returned or raised
Translated(f, gres) ==
    LET t == TranslateWithGemini(gres)
        unusable == \/ gres.tag = "raise"
                    \/ t = <<>>
                    \/ ContainsSeq(Lower(t), <<"unavailable">>)
    IN AfterText([f EXCEPT !.translated = gres,
                           !.final_english_text = IF unusable THEN <<>> ELSE t])

\* letting an exception of extract_emr end the request
Extracted_Propagates(f, gres) ==
    IF gres.tag = "raise"
    THEN Abort(f, 500)
    ELSE LET emr == ExtractEmr(f.final_english_text, gres)
             g == [f EXCEPT !.emr_data = emr]
         IN IF emr # EmptyDict
            THEN IF IsMeaningfulEmr(emr)
                 THEN Calling([g EXCEPT !.pc = "generate_suggestions"],
                              IF GenerateSuggestionsCalls(emr)
                              THEN <<"generate_suggestions", "call_gemini_api">>
                              ELSE <<"generate_suggestions">>)
                 ELSE Respond([g EXCEPT !.suggestions =
                          Info("Suggestions not generated due to non-informative EMR data.")])
            ELSE Respond([g EXCEPT !.suggestions =
                     Info("Suggestions not generated because EMR extraction was empty.")])

\* generating suggestions for every record that is not empty
Extracted_NoGate(f, gres) ==
    IF gres.tag = "raise"
    THEN Respond([f EXCEPT !.suggestions = Error("Failed to process text with Gemini")])
    ELSE LET emr == ExtractEmr(f.final_english_text, gres)
             g == [f EXCEPT !.emr_data = emr]
         IN IF emr # EmptyDict
            THEN Calling([g EXCEPT !.pc = "generate_suggestions"],
                         IF GenerateSuggestionsCalls(emr)
                         THEN <<"generate_suggestions", "call_gemini_api">>
                         ELSE <<"generate_suggestions">>)
            ELSE Respond([g EXCEPT !.suggestions =
                     Info("Suggestions not generated because EMR extraction was empty.")])

\* calling extract_emr once more when it raised
Extracted_ExtractsAgain(f, gres) ==
    IF gres.tag = "raise"
    THEN Calling(f, <<"extract_emr", "call_gemini_api">>)
    ELSE LET emr == ExtractEmr(f.final_english_text, gres)
             g == [f EXCEPT !.emr_data = emr]
         IN IF emr # EmptyDict
            THEN IF IsMeaningfulEmr(emr)
                 THEN Calling([g EXCEPT !.pc = "generate_suggestions"],
                              IF GenerateSuggestionsCalls(emr)
                              THEN <<"generate_suggestions", "call_gemini_api">>
                              ELSE <<"generate_suggestions">>)
                 ELSE Respond([g EXCEPT !.suggestions =
                          Info("Suggestions not generated due to non-informative EMR data.")])
            ELSE Respond([g EXCEPT !.suggestions =
                     Info("Suggestions not generated because EMR extraction was empty.")])

\* lines 202-234: extract_emr has returned or raised
Extracted(f, gres) ==
    IF gres.tag = "raise"
    THEN Respond([f EXCEPT !.suggestions = Error("Failed to process text with Gemini")])
    ELSE LET emr == ExtractEmr(f.final_english_text, gres)
             g == [f EXCEPT !.emr_data = emr]
         IN IF emr # EmptyDict
            THEN IF IsMeaningfulEmr(emr)
                 THEN Calling([g EXCEPT !.pc = "generate_suggestions"],
                              IF GenerateSuggestionsCalls(emr)
                              THEN <<"generate_suggestions", "call_gemini_api">>
                              ELSE <<"generate_suggestions">>)
                 ELSE Respond([g EXCEPT !.suggestions =
                          Info("Suggestions not generated due to non-informative EMR data.")])
            ELSE Respond([g EXCEPT !.suggestions =
                     Info("Suggestions not generated because EMR extraction was empty.")])

\* lines 215-234: generate_suggestions has returned or raised
Suggested(f, gres) ==
    IF gres.tag = "raise"
    THEN Respond([f EXCEPT !.suggested = gres,
                           !.suggestions = Error("Failed to process text with Gemini")])
    ELSE Respond([f EXCEPT !.suggested = gres,
                           !.suggestions = GenerateSuggestions(f.emr_data, gres)])

\* lines 39-90: validation, then the upload is saved and converted
asr_validate ==
    /\ asr.pc = "start"
    /\ asr' = Validate(asr)
    /\ UNCHANGED not_asr

\* lines 74-111: save, convert_audio, librosa.load
LoadOutcomes ==
    {"ok", "save_error", "conversion_failed", "file_not_found", "value_error", "empty_audio"}

\* lines 82-125: the audio is there (or not); detection or transcription starts
asr_loaded ==
    /\ asr.pc = "load"
    /\ \E o \in Drawn(LoadOutcomes, {"ok", "empty_audio"}),
          n \in Drawn({1, MaxSamples}, {1}) :
         /\ o # "ok" => n = 1
         /\ IF o \in {"save_error", "conversion_failed", "file_not_found"}
            THEN asr' = Abort(asr, 500) /\ UNCHANGED dvars        \* lines 93, 262, 278
            ELSE IF o \in {"value_error", "empty_audio"}
            THEN asr' = Abort(asr, 400) /\ UNCHANGED dvars        \* lines 106, 266
            ELSE IF asr.effective_language = "None"
            THEN /\ asr' = Calling([asr EXCEPT !.pc = "detect_language_from_audio",
                                               !.audio_data = n],
                                   <<"detect_language_from_audio">>)
                 /\ d_pc' = "start"
                 /\ d_in' = [one_dim |-> TRUE, n |-> n, sr |-> TARGET_SAMPLE_RATE,
                             ms |-> CHUNK_SIZE_MS]
                 /\ UNCHANGED <<d_chunk, d_run, d_result, d_guess, d_asked, d_ret>>
            ELSE /\ asr' = StartTranscription([asr EXCEPT !.audio_data = n])
                 /\ UNCHANGED dvars
    /\ UNCHANGED <<asr_models, gvars, xvars, sched, rvars>>

\* lines 116-136: detect_language_from_audio has returned
asr_detected ==
    /\ asr.pc = "detect_language_from_audio"
    /\ d_pc = "done"
    /\ asr' = StartTranscription(
                 [asr EXCEPT !.effective_language =
                      IF d_ret \in {"en", "ml"} THEN d_ret ELSE "en",
                  !.detection_method = "automatic"])
    /\ d_pc' = "idle" /\ d_in' = NoInput /\ d_chunk' = 0 /\ d_run' = NoRuns
    /\ d_result' = NoTexts /\ d_guess' = NoGuesses /\ d_asked' = NotAsked
    /\ d_ret' = "pending"
    /\ UNCHANGED <<asr_models, gvars, xvars, sched, rvars>>

\* lines 136-179: run_pipeline_async has returned
asr_transcribed ==
    /\ asr.pc = "run_pipeline_async"
    /\ \E o \in Drawn(PipelineOutcomes, FewPipelineOutcomes) :
         asr' = Transcribed(
                    [asr EXCEPT !.run_failure =
                         PipelineFailure(asr_models[asr.transcription_model_key], o)],
                    RunPipeline(asr_models[asr.transcription_model_key],
                                asr.transcription_model_key, o))
    /\ asr_models' = AfterGet(asr_models, asr.transcription_model_key)
    /\ UNCHANGED <<gvars, dvars, xvars, sched, rvars>>

\* lines 152-160 and on
asr_translated ==
    /\ asr.pc = "translate_with_gemini"
    /\ \E gres \in Drawn(GeminiResult(TranslationLines),
                         {NoneRet, TextRet(<<"chest", " ", "pain">>)}) :
         asr' = Translated(asr, gres)
    /\ UNCHANGED not_asr

\* lines of a model answer to the record prompt, as the route meets them
RouteEmrLines ==
    { <<"Allergies", ":", " ", "penicillin">>,
      <<" ", "ALLERGIES", " ", ":", "None">>,
      <<"Past", " ", "Medical", " ", "History", ":", " ", "N/A">>,
      <<"Current", " ", "Medications", ":", " ", "NOT", " ", "MENTIONED">>,
      <<"garbage">> }

\* lines 202-229 and on
asr_extracted ==
    /\ asr.pc = "extract_emr"
    /\ \E gres \in Drawn(GeminiResult(RouteEmrLines),
                         {[tag |-> "raise", text |-> <<>>],
                          TextRet(<<"Allergies", ":", " ", "penicillin">>)}) :
         asr' = Extracted(asr, gres)
    /\ UNCHANGED not_asr

\* lines 215-216 and on
asr_suggested ==
    /\ asr.pc = "generate_suggestions"
    /\ \E gres \in IF GenerateSuggestionsCalls(asr.emr_data)
                   THEN Drawn(GeminiResult(SuggestionLines),
                              {NoneRet, TextRet(<<"differential", " ", "diagnosis", ":",
                                                  " ", "angina">>)})
                   ELSE {Pending} :
         asr' = Suggested(asr, gres)
    /\ UNCHANGED not_asr

\* the language form field: absent, or its text
LanguageFields ==
    {[present |-> FALSE, text |-> <<>>]}
    \cup [present : {TRUE},
          text : { <<>>, <<"en">>, <<" ", "ML", " ">>, <<"fr">>, <<" ">> }]

NewRequest(form) ==
    [pc |-> "start", form |-> form,
     effective_language |-> "None", detection_method |-> "automatic",
     audio_data |-> 0, transcription_model_key |-> "",
     run_failure |-> "pending", translated |-> Pending, suggested |-> Pending,
     http_attempts |-> 0,
     raw_transcription |-> <<>>, final_english_text |-> <<>>,
     emr_data |-> EmptyDict, suggestions |-> EmptyDict,
     calls |-> <<>>, status |-> 0, response |-> NoResponse]

AsrIdle ==
    asr = [NewRequest([has_audio |-> FALSE, has_filename |-> FALSE, type_allowed |-> FALSE,
                       language |-> [present |-> FALSE, text |-> <<>>]])
           EXCEPT !.pc = "idle"]

NextAsr ==
    \/ asr_validate
    \/ asr_loaded
    \/ detect_enter
    \/ \E k \in ModelKeys : detect_run_finish(k)
    \/ detect_resolve
    \/ asr_detected
    \/ asr_transcribed
    \/ asr_translated
    \/ asr_extracted
    \/ asr_suggested

(***************************************************************************)
(* The room registry and the Socket.IO handlers (sockets.py,               *)
(* predict_routes.py:16-29).  A handler runs from its event to its return; *)
(* emitted holds what it emitted.                                          *)
(***************************************************************************)
Sids == {"sid1", "sid2"}
RoomIds == {"ROOM01", "ROOM02"}

\* data.get('room_id'): a room code, or "" for a missing, null or empty one
RoomIdInputs == RoomIds \cup {""}

\* data.get('username', f'User_{request.sid[:4]}')
UsernameInputs == {[present |-> FALSE, name |-> <<>>], [present |-> TRUE, name |-> <<"ann">>]}
UsernameOf(sid, u) == IF u.present THEN u.name ELSE <<"User_", sid>>

\* data.get('signal'): missing, an empty dict, an offer or answer, a candidate,
\* something that is no dict
SignalInputs ==
    {[kind |-> k] : k \in {"missing", "empty", "offer", "candidate", "text"}}

\* data.get('message'): missing, "", a text, a value that cannot be sliced
MessageInputs == {[kind |-> k] : k \in {"missing", "empty", "text", "number"}}

\* data.get('results')
ResultInputs == {[kind |-> k] : k \in {"missing", "results"}}

\* not x, for the values above
Falsy(x) == x.kind \in {"missing", "empty"}

\* active_rooms = {} (__init__.py:20); active_rooms[room_id] = {'users': {}}
NoRooms == <<>>
NewRoom == [users |-> EmptyDict]

\* request.sid in active_rooms[room_id].get('users', {})
InRoom(rooms, room_id, sid) ==
    room_id \in DOMAIN rooms /\ Has(rooms[room_id].users, sid)

\* emit(event, payload, to=..., include_self=...); without to= the event goes
\* to the session whose event is being handled
Emit(event, to, include_self, payload) ==
    [event |-> event, to |-> to, include_self |-> include_self, payload |-> payload]

NoEvent == [name |-> "none", sid |-> "", room_id |-> ""]
Event(name, sid, room_id) == [name |-> name, sid |-> sid, room_id |-> room_id]

\* lines 32-42, 52-63: WEBRTC_CONFIG is set by create_app (__init__.py:35)
EmitConfig(sid) == Emit("webrtc_config", sid, TRUE, [config |-> "WEBRTC_CONFIG"])

\* predict_routes.py:16-29: a new room code is stored, or the route gives up
create_room_route ==
    /\ \E ok \in BOOLEAN :
         IF ok /\ DOMAIN active_rooms # RoomIds
         THEN \E room_id \in RoomIds \ DOMAIN active_rooms :
                  active_rooms' = active_rooms @@ (room_id :> NewRoom)
         ELSE active_rooms' = active_rooms
    /\ last_event' = Event("create_room", "", "")
    /\ emitted' = <<>>
    /\ UNCHANGED sio_rooms
    /\ UNCHANGED not_rvars

\* sockets.py:14-79
handle_join_room ==
    /\ \E sid \in Sids, room_id \in RoomIdInputs, u \in UsernameInputs :
         LET username == UsernameOf(sid, u)
             rooms == IF room_id \in DOMAIN active_rooms THEN active_rooms
                      ELSE active_rooms @@ (room_id :> NewRoom)          \* lines 25-27
         IN
         /\ last_event' = Event("join_room", sid, room_id)
         /\ IF room_id = ""                                              \* lines 20-23
            THEN /\ emitted' = <<Emit("error", sid, TRUE,
                                      [message |-> "Room ID is required to join."])>>
                 /\ UNCHANGED <<active_rooms, sio_rooms>>
            ELSE IF Has(rooms[room_id].users, sid)                       \* lines 29-45
            THEN /\ emitted' = <<EmitConfig(sid),
                                 Emit("already_joined", sid, TRUE,
                                      [room_id |-> room_id,
                                       username |-> Get(rooms[room_id].users, sid)])>>
                 /\ active_rooms' = rooms
                 /\ UNCHANGED sio_rooms
            ELSE LET users == Append(rooms[room_id].users, <<sid, username>>) IN
                 /\ sio_rooms' = [sio_rooms EXCEPT ![room_id] = @ \cup {sid}]   \* line 47
                 /\ active_rooms' = [rooms EXCEPT ![room_id].users = users]     \* line 48
                 /\ emitted' = <<EmitConfig(sid),
                                 Emit("joined_room", sid, TRUE,
                                      [room_id |-> room_id, username |-> username,
                                       your_sid |-> sid,
                                       users |-> [i \in 1..Len(users) |-> users[i][2]]]),
                                 Emit("user_joined", room_id, FALSE,
                                      [user_id |-> sid, username |-> username])>>
    /\ UNCHANGED not_rvars

\* relaying for every room of the registry, whoever sends
handle_signal_AnySender ==
    /\ \E sid \in Sids, room_id \in RoomIdInputs, signal_data \in SignalInputs :
         /\ last_event' = Event("signal", sid, room_id)
         /\ IF room_id = "" \/ Falsy(signal_data)
            THEN emitted' = <<>>
            ELSE IF room_id \notin DOMAIN active_rooms
            THEN emitted' = <<>>
            ELSE emitted' = <<Emit("signal", room_id, FALSE,
                                   [user_id |-> sid, signal |-> signal_data])>>
    /\ UNCHANGED <<active_rooms, sio_rooms>>
    /\ UNCHANGED not_rvars

\* sockets.py:83-115
handle_signal ==
    /\ \E sid \in Sids, room_id \in RoomIdInputs, signal_data \in SignalInputs :
         /\ last_event' = Event("signal", sid, room_id)
         /\ IF room_id = "" \/ Falsy(signal_data)                        \* lines 90-92
            THEN emitted' = <<>>
            ELSE IF ~InRoom(active_rooms, room_id, sid)                  \* lines 94-96
            THEN emitted' = <<>>
            ELSE emitted' = <<Emit("signal", room_id, FALSE,
                                   [user_id |-> sid, signal |-> signal_data])>>
    /\ UNCHANGED <<active_rooms, sio_rooms>>
    /\ UNCHANGED not_rvars

\* sockets.py:118-141; message_text[:50] of line 134 raises for a number
handle_message ==
    /\ \E sid \in Sids, room_id \in RoomIdInputs, message_text \in MessageInputs :
         /\ last_event' = Event("message", sid, room_id)
         /\ IF room_id = "" \/ Falsy(message_text)                       \* lines 125-127
            THEN emitted' = <<>>
            ELSE IF ~InRoom(active_rooms, room_id, sid)                  \* lines 129-131
            THEN emitted' = <<>>
            ELSE IF message_text.kind = "number"                         \* line 134
            THEN emitted' = <<>>
            ELSE emitted' = <<Emit("message", room_id, TRUE,
                                   [user_id |-> sid,
                                    username |-> Get(active_rooms[room_id].users, sid),
                                    message |-> message_text])>>
    /\ UNCHANGED <<active_rooms, sio_rooms>>
    /\ UNCHANGED not_rvars

\* sockets.py:143-166
handle_ai_results ==
    /\ \E sid \in Sids, room_id \in RoomIdInputs, results \in ResultInputs :
         /\ last_event' = Event("ai_results", sid, room_id)
         /\ IF room_id = "" \/ Falsy(results)                            \* lines 149-151
            THEN emitted' = <<>>
            ELSE IF room_id \notin DOMAIN active_rooms                   \* lines 153-155
            THEN emitted' = <<>>
            ELSE emitted' = <<Emit("ai_results", room_id, TRUE,
                                   [room_id |-> room_id, results |-> results,
                                    processed_by |->
                                        IF Has(active_rooms[room_id].users, sid)
                                        THEN Get(active_rooms[room_id].users, sid)
                                        ELSE <<"Unknown">>])>>
    /\ UNCHANGED <<active_rooms, sio_rooms>>
    /\ UNCHANGED not_rvars

RoomsIdle ==
    /\ active_rooms = NoRooms
    /\ sio_rooms = [r \in RoomIds |-> {}]
    /\ last_event = NoEvent
    /\ emitted = <<>>

NextRooms ==
    \/ create_room_route
    \/ handle_join_room
    \/ handle_signal
    \/ handle_message
    \/ handle_ai_results

(***************************************************************************)
(* Specifications.                                                         *)
(***************************************************************************)
AllLoaded == asr_models = [k \in ModelKeys |-> TRUE]

\* one task alone: nothing is suspended
Alone == cur = 0 /\ parked = <<>>

GeminiDelays == {1, 2}

GeminiIdle ==
    /\ g_pc = "idle" /\ g_url = TRUE /\ retries = 0 /\ attempt = 0 /\ delay = 0
    /\ g_wait = 0 /\ g_trace = <<>> /\ g_ret = Pending

InitGemini ==
    /\ RoomsIdle
    /\ AllLoaded /\ DetectIdle /\ ExtractIdle /\ AsrIdle /\ Alone
    /\ g_pc = "call"
    /\ g_url \in BOOLEAN
    /\ retries \in 0..MaxRetries
    /\ delay \in GeminiDelays
    /\ attempt = 0
    /\ g_wait = 0
    /\ g_trace = <<>>
    /\ g_ret = Pending

NextGemini ==
    \/ call_gemini_api_enter
    \/ call_gemini_api_attempt
    \/ call_gemini_api_wake

SpecGemini == InitGemini /\ [][NextGemini]_vars

SampleRates == {0, 1000, 3000}
WindowMs == {0, 2, 5, 9}
SampleLengths == 0..MaxSamples \cup {LongSample}

InitDetect ==
    /\ RoomsIdle
    /\ GeminiIdle /\ ExtractIdle /\ AsrIdle /\ Alone
    /\ d_pc = "start"
    /\ asr_models \in [ModelKeys -> BOOLEAN]
    /\ d_in \in [one_dim : BOOLEAN, n : SampleLengths, sr : SampleRates, ms : WindowMs]
    /\ d_chunk = 0 /\ d_run = NoRuns /\ d_result = NoTexts
    /\ d_guess = NoGuesses /\ d_asked = NotAsked /\ d_ret = "pending"

SpecDetect == InitDetect /\ [][NextDetect]_vars

ExtractTexts == { <<>>, <<" ">>, <<"chest", " ", "pain">> }

InitExtract ==
    /\ RoomsIdle
    /\ AllLoaded /\ GeminiIdle /\ DetectIdle /\ AsrIdle /\ Alone
    /\ x_pc = "call"
    /\ x_text \in ExtractTexts
    /\ x_gres = Pending
    /\ x_emr = EmptyDict

SpecExtract == InitExtract /\ [][NextExtract]_vars

Init ==
    /\ RoomsIdle
    /\ GeminiIdle /\ DetectIdle /\ ExtractIdle /\ Alone
    /\ asr_models \in [ModelKeys -> BOOLEAN]
    /\ asr \in {NewRequest(form) :
                   form \in [has_audio : BOOLEAN, has_filename : BOOLEAN,
                             type_allowed : BOOLEAN, language : LanguageFields]}

Next == NextAsr

Spec == Init /\ [][Next]_vars

(***************************************************************************)
(* Two tasks in flight.  A task is a request being handled by              *)
(* transcribe_audio_route, or a call_gemini_api coroutine made for one.    *)
(* The variables hold the locals of the task that runs; the locals of the  *)
(* other are parked while it waits at an await.  The registry is the one   *)
(* object both tasks refer to (models.py:19-22).                           *)
(***************************************************************************)
\* the locals of a task, as they are parked
Locals == <<asr, dvars, gvars>>

IdleFrame ==
    [NewRequest([has_audio |-> FALSE, has_filename |-> FALSE, type_allowed |-> FALSE,
                 language |-> [present |-> FALSE, text |-> <<>>]])
     EXCEPT !.pc = "idle"]

IdleDetect == <<"idle", NoInput, 0, NoRuns, NoTexts, NoGuesses, NotAsked, "pending">>

IdleGemini == <<"idle", TRUE, 0, 0, 0, 0, <<>>, Pending>>

\* a request as it arrives: an allowed audio file, with or without a language
RequestTask(language) ==
    <<NewRequest([has_audio |-> TRUE, has_filename |-> TRUE, type_allowed |-> TRUE,
                  language |-> language]),
      IdleDetect, IdleGemini>>

\* call_gemini_api(prompt, retries=1, delay=1) as it is entered
GeminiTask == <<IdleFrame, IdleDetect, <<"call", TRUE, 1, 0, 1, 0, <<>>, Pending>> >>

Tasks ==
    {RequestTask(l) : l \in {[present |-> FALSE, text |-> <<>>],
                             [present |-> TRUE, text |-> <<"en">>],
                             [present |-> TRUE, text |-> <<" ", "ML", " ">>]}}
    \cup {GeminiTask}

\* the task has returned
TaskReturned(t) ==
    /\ t[1].pc \in {"idle", "responded", "failed"}
    /\ t[3][1] \in {"idle", "done", "raised"}

\* the retry delay kept in one place for both tasks
switch_task_SharedDelay ==
    /\ Concurrent
    /\ ~TaskReturned(parked)
    /\ parked' = Locals
    /\ cur' = 3 - cur
    /\ asr' = parked[1]
    /\ d_pc' = parked[2][1] /\ d_in' = parked[2][2] /\ d_chunk' = parked[2][3]
    /\ d_run' = parked[2][4] /\ d_result' = parked[2][5] /\ d_guess' = parked[2][6]
    /\ d_asked' = parked[2][7] /\ d_ret' = parked[2][8]
    /\ g_pc' = parked[3][1] /\ g_url' = parked[3][2] /\ retries' = parked[3][3]
    /\ attempt' = parked[3][4] /\ delay' = delay /\ g_wait' = parked[3][6]
    /\ g_trace' = parked[3][7] /\ g_ret' = parked[3][8]
    /\ UNCHANGED <<asr_models, xvars, rvars>>

\* the running task is suspended where it stands and the other is resumed
\* with the locals it was suspended with
switch_task ==
    /\ Concurrent
    /\ ~TaskReturned(parked)
    /\ parked' = Locals
    /\ cur' = 3 - cur
    /\ asr' = parked[1]
    /\ d_pc' = parked[2][1] /\ d_in' = parked[2][2] /\ d_chunk' = parked[2][3]
    /\ d_run' = parked[2][4] /\ d_result' = parked[2][5] /\ d_guess' = parked[2][6]
    /\ d_asked' = parked[2][7] /\ d_ret' = parked[2][8]
    /\ g_pc' = parked[3][1] /\ g_url' = parked[3][2] /\ retries' = parked[3][3]
    /\ attempt' = parked[3][4] /\ delay' = parked[3][5] /\ g_wait' = parked[3][6]
    /\ g_trace' = parked[3][7] /\ g_ret' = parked[3][8]
    /\ UNCHANGED <<asr_models, xvars, rvars>>

InitConcurrent ==
    /\ RoomsIdle
    /\ AllLoaded /\ ExtractIdle
    /\ cur = 1
    /\ \E t \in Tasks :
         /\ asr = t[1]
         /\ d_pc = t[2][1] /\ d_in = t[2][2] /\ d_chunk = t[2][3] /\ d_run = t[2][4]
         /\ d_result = t[2][5] /\ d_guess = t[2][6] /\ d_asked = t[2][7] /\ d_ret = t[2][8]
         /\ g_pc = t[3][1] /\ g_url = t[3][2] /\ retries = t[3][3] /\ attempt = t[3][4]
         /\ delay = t[3][5] /\ g_wait = t[3][6] /\ g_trace = t[3][7] /\ g_ret = t[3][8]
    /\ parked \in Tasks

NextConcurrent == NextAsr \/ NextGemini \/ switch_task

SpecConcurrent == InitConcurrent /\ [][NextConcurrent]_vars

(***************************************************************************)
(* Properties of call_gemini_api.                                          *)
(***************************************************************************)
AllKind(k) == \A i \in 1..Len(g_trace) : g_trace[i].out.kind = k

Returned == g_pc = "done"

\* The call is still going on after the attempt recorded at g_trace[i].
Continues(i) ==
    /\ g_trace[i].slept
    /\ i = Len(g_trace) => g_pc \in {"sleep", "post"}
    /\ i < Len(g_trace) => g_trace[i + 1].attempt = g_trace[i].attempt + 1

\* C1: against a service that answers every attempt with a 5xx status the
\* client issues exactly retries + 1 HTTP attempts and then returns None; it
\* never raises and never issues more than retries + 1 attempts on the way.
C1_ServerErrorRetryBound ==
    (g_url /\ AllKind("http5xx")) =>
        /\ g_pc # "raised"
        /\ Len(g_trace) <= retries + 1
        /\ Returned => (Len(g_trace) = retries + 1 /\ g_ret = NoneRet)

C1_Witness ==
    /\ Returned /\ g_url /\ AllKind("http5xx")
    /\ retries = 2 /\ Len(g_trace) = 3 /\ g_ret = NoneRet

\* C2: a 429 on an attempt that is not the last is followed by a wait of at
\* least Retry-After when the header is present, of twice the current delay
\* when it is absent, and in both cases by the next attempt.
C2_RateLimitWaitThenRetry ==
    \A i \in 1..Len(g_trace) :
        (g_trace[i].out.kind = "http429" /\ g_trace[i].attempt < retries) =>
            /\ Continues(i)
            /\ g_trace[i].out.ra.form = "int" =>
                   g_trace[i].secs >= g_trace[i].out.ra.secs
            /\ g_trace[i].out.ra.form = "absent" =>
                   g_trace[i].secs = 2 * g_trace[i].delay

\* C3: whatever the service answers, the call ends by returning the text or
\* None; no exception escapes to the caller.
C3_NeverRaises ==
    /\ g_pc # "raised"
    /\ Returned => g_ret.tag \in {"text", "none"}

\* C4: a 4xx status other than 429 ends the call at once with None: it is the
\* last attempt, no sleep follows it, whatever retry budget remains.
C4_ClientErrorFailsImmediately ==
    \A i \in 1..Len(g_trace) :
        g_trace[i].out.kind = "http4xx" =>
            /\ i = Len(g_trace)
            /\ ~g_trace[i].slept
            /\ Returned
            /\ g_ret = NoneRet

C4_Witness ==
    /\ Returned /\ retries = 2 /\ Len(g_trace) = 2
    /\ g_trace[2].out.kind = "http4xx" /\ g_trace[2].attempt < retries

\* C5: a 200 body lacking candidates, content, parts or text is retriable in
\* each of the four cases: with attempts left the client sleeps for the current
\* delay and attempts again; on the last attempt it returns None without a
\* sleep, so a failure caused by such a body comes only after retries + 1
\* attempts.
C5_MissingShapeIsRetriable ==
    \A i \in 1..Len(g_trace) :
        g_trace[i].out.kind \in MissingKinds =>
            /\ g_trace[i].attempt < retries =>
                   (Continues(i) /\ g_trace[i].secs = g_trace[i].delay)
            /\ g_trace[i].attempt >= retries =>
                   /\ ~g_trace[i].slept
                   /\ i = Len(g_trace) /\ Len(g_trace) = retries + 1
                   /\ Returned /\ g_ret = NoneRet

C5_Witness ==
    /\ Returned /\ retries = 2 /\ Len(g_trace) = 3 /\ g_ret = NoneRet
    /\ \A i \in 1..3 : g_trace[i].out.kind \in MissingKinds
    /\ Cardinality({g_trace[i].out.kind : i \in 1..3}) = 3
    /\ g_trace[3].out.kind = "no_text"

(***************************************************************************)
(* Properties of detect_language_from_audio.                               *)
(***************************************************************************)
Detected == d_pc = "done"

\* The decision step ran (the call did not return early on its input checks).
Decided == Detected /\ \A k \in ModelKeys : d_run[k] \in {"finished", "failed"}

mlGuess == d_guess["whisper_ml"]
enGuess == d_guess["whisper_en"]

\* The decision table of the design, in order; the first matching row wins.
DecisionTable(m, e) ==
    << [match |-> m = "ml" /\ e # "en",   lang |-> "ml"],
       [match |-> e = "en" /\ m # "ml",   lang |-> "en"],
       [match |-> m = "ml" /\ e = "ml",   lang |-> "ml"],
       [match |-> m = "en" /\ e = "en",   lang |-> "en"],
       [match |-> m = "ml" /\ e = "null", lang |-> "ml"],
       [match |-> e = "en" /\ m = "null", lang |-> "en"],
       [match |-> TRUE,                   lang |-> "en"] >>

FirstMatch(rows) ==
    rows[CHOOSE i \in 1..Len(rows) :
            rows[i].match /\ \A j \in 1..(i - 1) : ~rows[j].match].lang

\* C6: detection is total.  For every sample (also one shorter than the
\* detection window) and every outcome of the two model runs and of the text
\* classifier, the call never stops before returning, and what it returns is
\* "en" or "ml".
C6_DetectionIsTotal ==
    /\ d_pc \in {"start", "gather", "done"}
    /\ ~Detected => ENABLED NextDetect
    /\ Detected => d_ret \in {"en", "ml"}

C6_Witness ==
    /\ Decided
    /\ d_in.n = 1 /\ ChunkSizeSamples(d_in.ms, d_in.sr) > d_in.n /\ d_chunk = 1
    /\ d_result["whisper_ml"] = ProcessingErrorText("whisper_ml")
    /\ mlGuess = "fr"
    /\ d_asked["whisper_en"] /\ enGuess = "null"
    /\ d_ret = "en"

\* C7: for every pair of classifications (each "ml", "en", another language
\* or null) the language returned equals the first matching row of the
\* decision table; (ml, null) gives Malayalam, (null, en) English, and
\* (null, null) and (en, ml) English.
C7_DecisionTable ==
    Decided =>
        /\ d_ret = FirstMatch(DecisionTable(mlGuess, enGuess))
        /\ (mlGuess = "ml" /\ enGuess = "null") => d_ret = "ml"
        /\ (mlGuess = "null" /\ enGuess = "en") => d_ret = "en"
        /\ (mlGuess = "null" /\ enGuess = "null") => d_ret = "en"
        /\ (mlGuess = "en" /\ enGuess = "ml") => d_ret = "en"

C7_Witness == Decided /\ mlGuess = "en" /\ enGuess = "ml" /\ d_ret = "en"

(***************************************************************************)
(* Properties of extract_emr.                                              *)
(***************************************************************************)
RequiredKeySet == {required_keys[i] : i \in 1..Len(required_keys)}

\* The model's answer has a KEY: VALUE line for key k (compared without case).
Produced(gres, k) ==
    /\ gres.tag = "text"
    /\ gres.text # <<>>
    /\ \E i \in 1..Len(SplitLines(Strip(gres.text))) :
         LET line == Strip(SplitLines(Strip(gres.text))[i]) IN
         HasColon(line) /\ Lower(Strip(BeforeColon(line))) = Lower(k)

SentinelForUnproduced(dict, gres) ==
    \A k \in RequiredKeySet : ~Produced(gres, k) => (Has(dict, k) /\ Get(dict, k) = NotMentioned)

\* C9 as stated: for any input text, the empty string included, the mapping
\* returned has exactly the five required keys, and every key the model did not
\* produce has the value "Not mentioned".
C9_AnyTextGivesAllKeys ==
    x_pc = "done" => (Keys(x_emr) = RequiredKeySet /\ SentinelForUnproduced(x_emr, x_gres))

\* C9 as amended: for any non-empty input text the mapping returned has
\* exactly the five required keys and every key the model did not produce has
\* the value "Not mentioned"; for the empty string the extractor returns the
\* empty mapping without calling the model.
C9_NonEmptyTextGivesAllKeys ==
    x_pc = "done" =>
        /\ x_text # <<>> =>
               (Keys(x_emr) = RequiredKeySet /\ SentinelForUnproduced(x_emr, x_gres))
        /\ x_text = <<>> => (x_emr = EmptyDict /\ x_gres = Pending)

C9_Witness ==
    /\ x_pc = "done" /\ x_text = <<"chest", " ", "pain">>
    /\ x_gres = TextRet(<<"Note", ":", " ", "pain", "\n", "garbage">>)
    /\ Keys(x_emr) = RequiredKeySet
    /\ \A k \in RequiredKeySet : Get(x_emr, k) = NotMentioned

(***************************************************************************)
(* Properties of transcribe_audio_route.                                   *)
(***************************************************************************)
\* The caller supplied a language code: the form field is there and not empty
\* (an empty field is no code: line 63 then leaves the language to detection).
SuppliedCode == asr.form.language.present /\ asr.form.language.text # <<>>

\* The code supplied, without regard to case and surrounding blanks.
SuppliedNormalised == Strip(Lower(asr.form.language.text))

Called(name) == InList(asr.calls, name)

ModelRunStarted ==
    Called("run_pipeline_async:whisper_ml") \/ Called("run_pipeline_async:whisper_en")

\* C8: with a supported code supplied the request, once past validation,
\* has that code as its resolved language and "specified" as its method, both
\* also in the response, and detection is never invoked; with an unsupported
\* code supplied the request ends with a client error status and no detection
\* or transcription run is ever started.
C8_ExplicitLanguage ==
    SuppliedCode =>
        IF SuppliedNormalised \in ALLOWED_LANGUAGES
        THEN /\ asr.pc \notin {"start", "failed"} =>
                    /\ asr.effective_language = SuppliedNormalised[1]
                    /\ asr.detection_method = "specified"
             /\ asr.pc = "responded" =>
                    /\ asr.response.effective_language = SuppliedNormalised[1]
                    /\ asr.response.detection_method = "specified"
             /\ ~Called("detect_language_from_audio")
             /\ d_pc = "idle"
        ELSE /\ asr.pc \in {"start", "failed"}
             /\ asr.pc = "failed" => asr.status \in {400, 415}
             /\ asr.calls = <<>>
             /\ d_pc = "idle"

C8_Witness ==
    /\ asr.pc = "responded"
    /\ asr.form.language.text = <<" ", "ML", " ">>
    /\ asr.response.effective_language = "ml"
    /\ asr.response.detection_method = "specified"
    /\ Called("run_pipeline_async:whisper_ml")

\* The gate has been evaluated on a record that extract_emr returned.
GateEvaluated ==
    /\ asr.pc \in {"generate_suggestions", "responded"}
    /\ Keys(asr.emr_data) = RequiredKeySet

Placeholders == { <<"not", " ", "mentioned">>, <<"none">>, <<"n/a">>, <<>> }

HasRealValue(emr) == \E v \in Values(emr) : v # <<>> /\ Lower(v) \notin Placeholders

\* C10: the orchestrator judges a record meaningful (and goes on to
\* generate_suggestions) exactly when one of its values is non-empty and,
\* without regard to case, none of "not mentioned", "none", "n/a", ""; a record
\* whose every field is the sentinel is judged not meaningful.
C10_MeaningfulnessGate ==
    GateEvaluated =>
        /\ Called("generate_suggestions") <=> HasRealValue(asr.emr_data)
        /\ Values(asr.emr_data) = {NotMentioned} =>
               /\ ~Called("generate_suggestions")
               /\ asr.suggestions =
                      Info("Suggestions not generated due to non-informative EMR data.")

C10_Witness ==
    /\ asr.pc = "responded"
    /\ Keys(asr.emr_data) = RequiredKeySet
    /\ Get(asr.emr_data, <<"Allergies">>) = <<"None">>
    /\ Get(asr.emr_data, <<"Past", " ", "Medical", " ", "History">>) = <<"N/A">>
    /\ ~Called("generate_suggestions")

\* The transcription run of the request has returned.
TranscriptionReturned == asr.run_failure # "pending"

GeminiStageCalls ==
    {"translate_with_gemini", "extract_emr", "generate_suggestions", "call_gemini_api"}

\* C11: when the transcription run has returned text carrying the marker
\* "Error:", the request has ended with status 500 and without a response
\* object, and no translation, extraction, suggestion or remote call was made.
C11_MarkedTranscriptionIsFatal ==
    (TranscriptionReturned /\ ContainsSeq(asr.raw_transcription, ErrorMarker)) =>
        /\ asr.pc = "failed"
        /\ asr.status = 500
        /\ asr.response = NoResponse
        /\ \A name \in GeminiStageCalls : ~Called(name)

C11_Witness ==
    /\ asr.pc = "failed"
    /\ asr.status = 500
    /\ asr.run_failure = "not_loaded"
    /\ asr.effective_language = "ml"
    /\ asr.raw_transcription = NotAvailableText("whisper_ml")

\* C12: a request whose resolved language is "en" never calls
\* translate_with_gemini, and the processed_text of its response is its
\* raw_transcription.
C12_EnglishIsNotTranslated ==
    /\ (ModelRunStarted /\ asr.effective_language = "en") => ~Called("translate_with_gemini")
    /\ (asr.pc = "responded" /\ asr.response.effective_language = "en") =>
           /\ ~Called("translate_with_gemini")
           /\ asr.translated = Pending
           /\ asr.response.processed_text = asr.response.raw_transcription

C12_Witness ==
    /\ asr.pc = "responded"
    /\ asr.response.effective_language = "en"
    /\ asr.response.detection_method = "automatic"
    /\ asr.response.raw_transcription = <<"chest", " ", "pain">>
    /\ asr.response.processed_text = <<"chest", " ", "pain">>

TranslationLabel == <<"english", " ", "translation", ":">>

\* t without a leading "english translation:" label (in any case) and the
\* blanks around what is left
WithoutLeadingLabel(t) ==
    IF HasPrefix(Lower(t), TranslationLabel)
    THEN Strip(SubSeq(t, Len(TranslationLabel) + 1, Len(t)))
    ELSE Strip(t)

\* the remote call made for the translation handed back non-empty text
TranslationReturnedText == asr.translated.tag = "text" /\ asr.translated.text # <<>>

\* C13: a response for resolved language "ml" with a non-empty raw
\* transcription and a translation call that returned non-empty text has
\* effective language "ml", has that text without its leading label as
\* processed_text, and has a record with exactly the five required keys.
C13_MalayalamIsTranslated ==
    ( /\ asr.pc = "responded"
      /\ asr.effective_language = "ml"
      /\ asr.raw_transcription # <<>>
      /\ TranslationReturnedText ) =>
        /\ asr.response.effective_language = "ml"
        /\ asr.response.processed_text = WithoutLeadingLabel(asr.translated.text)
        /\ Keys(asr.response.emr) = RequiredKeySet

\* a remote call was made on behalf of generate_suggestions
SuggestionRemoteCall ==
    \E i \in 1..(Len(asr.calls) - 1) :
        asr.calls[i] = "generate_suggestions" /\ asr.calls[i + 1] = "call_gemini_api"

\* every value of the record is the sentinel, in whatever case the model wrote it
OnlySentinels(emr) ==
    /\ Keys(emr) = RequiredKeySet
    /\ \A v \in Values(emr) : Lower(v) = Lower(NotMentioned)

\* C14: generate_suggestions, and the remote call it makes, happen only for
\* a record with a real value; a response whose record holds only sentinels has
\* a suggestions object made of the single key "info", and no generation call
\* was made for it.
C14_GenerationOnlyThroughGate ==
    /\ (Called("generate_suggestions") \/ SuggestionRemoteCall) =>
           /\ Keys(asr.emr_data) = RequiredKeySet
           /\ HasRealValue(asr.emr_data)
    /\ (asr.pc = "responded" /\ OnlySentinels(asr.response.emr)) =>
           /\ Keys(asr.response.suggestions) = { <<"info">> }
           /\ ~Called("generate_suggestions")
           /\ ~SuggestionRemoteCall

C14_Witness ==
    /\ asr.pc = "responded"
    /\ OnlySentinels(asr.response.emr)
    /\ Get(asr.response.emr, <<"Current", " ", "Medications">>) = <<"NOT", " ", "MENTIONED">>
    /\ Keys(asr.response.suggestions) = { <<"info">> }
    /\ asr.calls[Len(asr.calls)] = "call_gemini_api"
    /\ asr.calls[Len(asr.calls) - 1] = "extract_emr"

\* the transcription run has returned text without the marker (possibly empty)
ErrorFreeTranscription ==
    TranscriptionReturned /\ ~ContainsSeq(asr.raw_transcription, ErrorMarker)

ResponseFields ==
    {"status", "detection_method", "effective_language", "raw_transcription",
     "processed_text", "emr", "suggestions"}

SuccessResponse ==
    /\ asr.pc = "responded"
    /\ asr.status = 200
    /\ DOMAIN asr.response = ResponseFields
    /\ asr.response.status = "success"

\* the stages left before the response
StagesLeft(pc) ==
    CASE pc = "translate_with_gemini" -> 3
      [] pc = "extract_emr" -> 2
      [] pc = "generate_suggestions" -> 1
      [] pc = "responded" -> 0
      [] OTHER -> 4

\* C15: from the moment the transcription run has returned text without
\* the marker, the request is never failed: it is at the response or waits for
\* the translation, extraction or suggestion call, and every step, whatever
\* that call returned or raised, brings it closer to the response, which is
\* the success response with the six fields; once a
\* transcription run was started, the only failed requests are those whose
\* transcription returned text with the marker.
C15_OnlyTranscriptionIsFatal ==
    /\ [](ErrorFreeTranscription => StagesLeft(asr.pc) <= 3)
    /\ [][ErrorFreeTranscription => StagesLeft(asr'.pc) < StagesLeft(asr.pc)]_asr
    /\ [](asr.pc = "responded" => SuccessResponse)
    /\ []((ModelRunStarted /\ asr.pc = "failed") =>
             (TranscriptionReturned /\ ContainsSeq(asr.raw_transcription, ErrorMarker)))

C15_Witness ==
    /\ SuccessResponse
    /\ asr.effective_language = "ml"
    /\ asr.translated.tag = "none"
    /\ asr.response.processed_text = <<>>
    /\ asr.response.raw_transcription # <<>>

\* C16: whenever the transcription run of the request ended in a failure
\* (the model key not in the registry, or the model call raising), the text it
\* returned carries the marker "Error:".
C16_FailureTextIsMarked ==
    asr.run_failure \in {"not_loaded", "raise"} =>
        ContainsSeq(asr.raw_transcription, ErrorMarker)

\* the response was built without a call of extract_emr
ExtractionSkipped == asr.pc = "responded" /\ ~Called("extract_emr")

\* the canonical text is empty or carries the marker
NoUsableText ==
    \/ asr.response.processed_text = <<>>
    \/ ContainsSeq(asr.response.processed_text, ErrorMarker)

\* C17 as stated: when extraction is skipped, the record of the response
\* has every required key, each with the sentinel, and an informational flag.
C17_SkippedRecordHasAllFields ==
    ExtractionSkipped =>
        /\ RequiredKeySet \subseteq Keys(asr.response.emr)
        /\ \A k \in RequiredKeySet : Get(asr.response.emr, k) = NotMentioned
        /\ Has(asr.response.emr, <<"info">>)

\* C17 as amended: extraction is skipped exactly for a canonical text that
\* is empty or carries the marker, and the record of the response is then the
\* object made of the single key "info" with its explanation: it has none of
\* the required keys.
C17_SkippedRecordIsInfoOnly ==
    /\ (asr.pc = "responded") => (ExtractionSkipped <=> NoUsableText)
    /\ ExtractionSkipped =>
           /\ Keys(asr.response.emr) = { <<"info">> }
           /\ asr.response.emr = Info("EMR not generated due to issues in prior steps.")
           /\ Keys(asr.response.emr) \cap RequiredKeySet = {}

C17_Witness ==
    /\ ExtractionSkipped
    /\ asr.response.effective_language = "en"
    /\ asr.response.raw_transcription = <<>>
    /\ asr.response.processed_text = <<>>
    /\ Keys(asr.response.emr) = { <<"info">> }

(***************************************************************************)
(* Isolation of the two model runs of detect_language_from_audio.          *)
(***************************************************************************)
\* the arguments pass the checks of lines 90-112
UsableSample == d_in.one_dim /\ d_in.n > 0 /\ d_in.sr > 0

\* the run for key k failed: the model is not in the registry, or its call raised
RunFailed(k) == ~asr_models[k] \/ d_run[k] = "failed"

OtherKey(k) == IF k = "whisper_ml" THEN "whisper_en" ELSE "whisper_ml"

\* C18: when detection has returned for a usable sample and exactly one of
\* the two runs failed, the other run was made and finished, the failed side
\* has no classification, and the language returned is the row of the decision
\* table for the surviving side's classification and null.
C18_RunFailureIsIsolated ==
    (Detected /\ UsableSample) =>
        \A k \in ModelKeys :
            (RunFailed(k) /\ ~RunFailed(OtherKey(k))) =>
                /\ d_run[OtherKey(k)] = "finished"
                /\ d_guess[k] = "null"
                /\ d_ret = FirstMatch(DecisionTable(
                               IF k = "whisper_ml" THEN "null" ELSE mlGuess,
                               IF k = "whisper_en" THEN "null" ELSE enGuess))

(***************************************************************************)
(* Properties of two tasks in flight.                                      *)
(***************************************************************************)
\* C19: no step of language detection, of the inference runner or of the
\* request handler, in any interleaving of two tasks, adds, removes or
\* replaces an entry of the registry asr_models.
C19_RegistryIsReadOnly ==
    /\ [](DOMAIN asr_models = ModelKeys)
    /\ [][asr_models' = asr_models]_vars

C19_Witness ==
    /\ cur = 2
    /\ asr.pc = "responded" /\ parked[1].pc = "responded"
    /\ Called("detect_language_from_audio")
    /\ Called("run_pipeline_async:whisper_ml")
    /\ InList(parked[1].calls, "run_pipeline_async:whisper_en")
    /\ AllLoaded

C21_FailedRunIsFatal ==
    asr.run_failure \in {"not_loaded", "raise"} =>
        /\ asr.pc = "failed" /\ asr.status = 500
        /\ asr.response = NoResponse
        /\ \A name \in GeminiStageCalls : ~Called(name)

\* the text does not begin with the marker
Unmarked(t) == ~HasPrefix(t, ErrorMarker)

\* C22: a transcription that a successful model run produced and that does
\* not begin with "Error:" is not treated as a transcription failure: the
\* request does not end with the status 500 of a failed transcription.
C22_OnlyLeadingMarkerFails ==
    (asr.run_failure = "ok" /\ Unmarked(asr.raw_transcription)) =>
        ~(asr.pc = "failed" /\ asr.status = 500)

(***************************************************************************)
(* Classification inside language detection.                               *)
(***************************************************************************)
\* C23: once detection has made its decision, a model output shorter than
\* the minimum text length, and the output of a run that failed, was not
\* passed to the text classifier and has the guess null.
C23_ShortOrFailedIsNotClassified ==
    Decided =>
        \A k \in ModelKeys :
            (CharLen(d_result[k]) < MinTextLenForDetect \/ d_run[k] = "failed") =>
                (~d_asked[k] /\ d_guess[k] = "null")

(***************************************************************************)
(* Attempts and waits of one call of call_gemini_api.                      *)
(***************************************************************************)
\* the delay the call was made with
BaseDelay == g_trace[1].delay

\* C24: whatever the service answers, a call issues at most retries + 1
\* HTTP attempts, numbered 0 to retries; an attempt answered by a well-formed
\* 200 is the last of the call, and the call has returned the text of that
\* answer, trimmed as line 85 trims it.
C24_AttemptBudgetAndFirstOk ==
    /\ Len(g_trace) <= retries + 1
    /\ \A i \in 1..Len(g_trace) :
          /\ g_trace[i].attempt = i - 1
          /\ g_trace[i].out.kind = "ok" =>
                 /\ i = Len(g_trace)
                 /\ Returned
                 /\ g_ret = TextRet(Strip(g_trace[i].out.text))

C24_Witness ==
    /\ Returned /\ retries = 2 /\ Len(g_trace) = 3
    /\ g_trace[1].out.kind = "timeout" /\ g_trace[2].out.kind = "no_text"
    /\ g_trace[3].out.kind = "ok" /\ g_trace[3].out.text = <<" ", "ok", "\n">>
    /\ g_ret = TextRet(<<"ok">>)

\* C25: a retry after a 5xx status on the first attempt waits the base
\* delay, and a retry after a 5xx status that follows a retried 5xx status
\* waits twice what that retry waited.
C25_ServerErrorBackoffDoubles ==
    \A i \in 1..Len(g_trace) :
        (g_trace[i].out.kind = "http5xx" /\ g_trace[i].slept) =>
            /\ i = 1 => g_trace[i].secs = BaseDelay
            /\ (i > 1 /\ g_trace[i - 1].out.kind = "http5xx") =>
                   g_trace[i].secs = 2 * g_trace[i - 1].secs

C25_Witness ==
    /\ retries = 2 /\ Len(g_trace) = 3 /\ AllKind("http5xx") /\ Returned
    /\ BaseDelay = 2
    /\ g_trace[1].slept /\ g_trace[1].secs = 2
    /\ g_trace[2].slept /\ g_trace[2].secs = 4

\* a timeout, or a 200 whose body lacks a level or has a wrong shape
TimeoutOrShapeKinds == MissingKinds \cup {"timeout", "bad_shape"}

\* C26: the wait before a retry caused by a timeout or by a malformed or
\* missing response shape is at least the base delay and at least every wait
\* made earlier in the same call.
C26_TransportWaitNeverShrinks ==
    \A i \in 1..Len(g_trace) :
        (g_trace[i].out.kind \in TimeoutOrShapeKinds /\ g_trace[i].slept) =>
            /\ g_trace[i].secs >= BaseDelay
            /\ \A j \in 1..(i - 1) :
                   g_trace[j].slept => g_trace[i].secs >= g_trace[j].secs

(***************************************************************************)
(* The two inference runs of language detection.                           *)
(***************************************************************************)
RunOver(k) == d_run[k] \in {"finished", "failed"}

\* C27: the two inference runs of detection are started together, before
\* the result of either is looked at; a run that is still going can finish
\* whatever became of the other; and the texts are classified and the language
\* decided only in a step taken when both runs are over, with a result or with
\* a failure.
C27_BothRunsBeforeDecision ==
    /\ [](d_pc = "gather" => \A k \in ModelKeys : d_run[k] # "none")
    /\ [](\A k \in ModelKeys :
             (d_pc = "gather" /\ d_run[k] = "running") => ENABLED detect_run_finish(k))
    /\ [][(\E k \in ModelKeys : d_run[k] = "none" /\ d_run'[k] # "none") =>
              (\A j \in ModelKeys : d_run[j] = "none" /\ d_run'[j] = "running")]_dvars
    /\ [][(d_pc = "gather" /\ (d_pc' = "done" \/ d_guess' # d_guess \/ d_asked' # d_asked)) =>
              (\A k \in ModelKeys : RunOver(k))]_dvars

C27_Witness ==
    /\ Decided
    /\ d_run["whisper_ml"] = "failed" /\ d_run["whisper_en"] = "finished"
    /\ d_result["whisper_en"] = <<"chest", " ", "pain">>
    /\ d_asked["whisper_en"] /\ enGuess = "en" /\ d_ret = "en"

(***************************************************************************)
(* The leading segment used for detection.                                 *)
(***************************************************************************)
\* floor(ms/1000 * sr), the number of samples in a window of ms milliseconds
WindowSamples(ms, sr) == (ms * sr) \div 1000

\* C28: for a usable sample of n samples at rate sr and a window of ms
\* milliseconds, with c = floor(ms/1000 * sr), the segment the two model
\* runs were started on is the whole sample when c <= 0 or c >= n and the first c samples
\* otherwise; it is not empty and not longer than the sample.
C28_LeadingSegment ==
    (UsableSample /\ \A k \in ModelKeys : d_run[k] # "none") =>
        LET c == WindowSamples(d_in.ms, d_in.sr) IN
        /\ d_chunk = IF c <= 0 \/ c >= d_in.n THEN d_in.n ELSE c
        /\ d_chunk > 0 /\ d_chunk <= d_in.n

(***************************************************************************)
(* A failed translation.                                                   *)
(***************************************************************************)
\* translate_with_gemini's remote call gave None (a failure or the retries
\* exhausted), raised, or gave the empty text
TranslationFailed ==
    \/ asr.translated.tag \in {"none", "raise"}
    \/ asr.translated.tag = "text" /\ asr.translated.text = <<>>

\* C29: when the translation call of a Malayalam request has failed, has
\* raised or has given empty text, the request has a success response whose
\* processed_text is the empty text and whose raw_transcription is the text
\* the Malayalam run returned; the translation step leaves the raw
\* transcription as it was.
C29_FailedTranslationDegrades ==
    /\ [](TranslationFailed =>
             /\ asr.effective_language = "ml"
             /\ asr.pc = "responded" /\ asr.status = 200
             /\ asr.response.status = "success"
             /\ asr.response.effective_language = "ml"
             /\ asr.response.processed_text = <<>>
             /\ asr.response.raw_transcription = asr.raw_transcription
             /\ asr.raw_transcription # <<>>)
    /\ [][asr.pc = "translate_with_gemini" =>
              asr'.raw_transcription = asr.raw_transcription]_asr

C29_Witness ==
    /\ asr.pc = "responded" /\ asr.status = 200
    /\ asr.translated.tag = "none"
    /\ asr.response.effective_language = "ml"
    /\ asr.response.raw_transcription = <<"chest", " ", "pain">>
    /\ asr.response.processed_text = <<>>
    /\ asr.response.status = "success"

(***************************************************************************)
(* The gate before record extraction.                                      *)
(***************************************************************************)
\* a remote call was made on behalf of extract_emr
ExtractionRemoteCall ==
    \E i \in 1..(Len(asr.calls) - 1) :
        asr.calls[i] = "extract_emr" /\ asr.calls[i + 1] = "call_gemini_api"

\* C30: extract_emr and its remote call are made only with a canonical
\* text that is not empty and carries no error marker; a response whose
\* canonical text is empty was built without a call of extract_emr or of
\* generate_suggestions and without a remote call for either.
C30_ExtractionOnlyOnUsableText ==
    /\ (Called("extract_emr") \/ ExtractionRemoteCall) =>
           /\ asr.final_english_text # <<>>
           /\ Unmarked(asr.final_english_text)
           /\ ~ContainsSeq(asr.final_english_text, ErrorMarker)
    /\ (asr.pc = "responded" /\ asr.response.processed_text = <<>>) =>
           /\ ~Called("extract_emr") /\ ~ExtractionRemoteCall
           /\ ~Called("generate_suggestions") /\ ~SuggestionRemoteCall

C30_Witness ==
    /\ asr.pc = "responded"
    /\ asr.response.processed_text = <<>>
    /\ asr.response.raw_transcription = <<"chest", " ", "pain">>
    /\ asr.translated.tag = "raise"
    /\ asr.calls = <<"run_pipeline_async:whisper_ml", "translate_with_gemini",
                     "call_gemini_api">>

(***************************************************************************)
(* The lines of a model answer in extract_emr.                             *)
(***************************************************************************)
AnswerLines(gres) == SplitLines(Strip(gres.text))

\* line i of the answer is a KEY: VALUE line for key k (compared without case)
LineIsFor(gres, i, k) ==
    LET line == Strip(AnswerLines(gres)[i]) IN
    HasColon(line) /\ Lower(Strip(BeforeColon(line))) = Lower(k)

\* the trimmed text after the first colon of the first line for key k
FirstValueFor(gres, k) ==
    LET i == CHOOSE i \in 1..Len(AnswerLines(gres)) :
                 LineIsFor(gres, i, k) /\ \A j \in 1..(i - 1) : ~LineIsFor(gres, j, k)
    IN Strip(AfterColon(Strip(AnswerLines(gres)[i])))

\* C31: for a model answer the mapping returned holds, for each required
\* key with a KEY: VALUE line in the answer, the trimmed text after the first
\* colon of the first such line; later lines for the key, lines for other keys
\* and lines without a colon change nothing and raise nothing: the mapping has
\* no key outside the required list.
C31_FirstLineWins ==
    (x_text # <<>> /\ x_gres.tag = "text") =>
        /\ x_pc = "done"
        /\ Keys(x_emr) \subseteq RequiredKeySet
        /\ \A k \in RequiredKeySet :
               Produced(x_gres, k) => Get(x_emr, k) = FirstValueFor(x_gres, k)

C31_Witness ==
    /\ x_pc = "done" /\ x_text = <<"chest", " ", "pain">>
    /\ x_gres = TextRet(<<"Allergies", ":", " ", "penicillin", "\n",
                          " ", "ALLERGIES", " ", ":", "None">>)
    /\ Get(x_emr, <<"Allergies">>) = <<"penicillin">>
    /\ Get(x_emr, <<"Presenting", " ", "Complaint">>) = NotMentioned

(***************************************************************************)
(* extract_emr when call_gemini_api returns None.                          *)
(***************************************************************************)
\* call_gemini_api returned None: a failure on every attempt it made
TotalFailure == x_gres.tag = "none"

\* C32 as stated: when the remote call fails totally the extractor returns
\* the empty mapping.
C32_TotalFailureGivesEmptyMapping ==
    (x_pc = "done" /\ TotalFailure) => x_emr = EmptyDict

\* C32 as amended: when the remote call fails totally the extractor itself
\* applies the defaults: it returns the mapping of the five required keys, in
\* list order, each with the value "Not mentioned".
C32_TotalFailureGivesSentinels ==
    TotalFailure =>
        /\ x_pc = "done" /\ x_text # <<>>
        /\ x_emr = [i \in 1..Len(required_keys) |-> <<required_keys[i], NotMentioned>>]

C32_Witness ==
    /\ x_pc = "done" /\ x_text = <<"chest", " ", "pain">>
    /\ x_gres = NoneRet
    /\ Len(x_emr) = 5
    /\ \A k \in RequiredKeySet : Get(x_emr, k) = NotMentioned

(***************************************************************************)
(* generate_suggestions behind the gate of asr_routes.py:208-214.          *)
(***************************************************************************)
SuggestionKeySet == {required_suggestion_keys[i] : i \in 1..Len(required_suggestion_keys)}

\* generate_suggestions has returned a value to the route
SuggestionsReturned == asr.pc = "responded" /\ asr.suggested.tag \in {"none", "text"}

\* C33: a record that passed the gate makes generate_suggestions issue its
\* remote call (its own check of lines 231 and 236 lets the record through),
\* and the mapping generate_suggestions returns has exactly the five
\* suggestion keys, in list order, with "Not specified" for every key the
\* model's answer did not produce; when the remote call returned None every
\* value is "Not specified".
C33_GatePassedGivesFiveSuggestions ==
    /\ (GateEvaluated /\ IsMeaningfulEmr(asr.emr_data)) =>
           /\ GenerateSuggestionsCalls(asr.emr_data)
           /\ SuggestionRemoteCall
    /\ SuggestionsReturned =>
           /\ IsMeaningfulEmr(asr.emr_data)
           /\ [i \in 1..Len(asr.response.suggestions) |-> asr.response.suggestions[i][1]]
                  = required_suggestion_keys
           /\ \A k \in SuggestionKeySet :
                  ~Produced(asr.suggested, k) => Get(asr.response.suggestions, k) = NotSpecified
           /\ asr.suggested = NoneRet => Values(asr.response.suggestions) = {NotSpecified}

C33_Witness ==
    /\ asr.pc = "responded"
    /\ Keys(asr.emr_data) = RequiredKeySet
    /\ Get(asr.emr_data, <<"Allergies">>) = <<"penicillin">>
    /\ Get(asr.emr_data, <<"Current", " ", "Medications">>) = <<"NOT", " ", "MENTIONED">>
    /\ asr.suggested = NoneRet
    /\ Keys(asr.response.suggestions) = SuggestionKeySet
    /\ Values(asr.response.suggestions) = {NotSpecified}

(***************************************************************************)
(* The order of the stages of one request (asr_routes.py:113-252).         *)
(***************************************************************************)
\* the place of a call in the order of the stages; 0 for the remote call
\* made inside a stage
StageRank(name) ==
    CASE name = "detect_language_from_audio" -> 1
      [] name \in {"run_pipeline_async:whisper_ml", "run_pipeline_async:whisper_en"} -> 2
      [] name = "translate_with_gemini" -> 3
      [] name = "extract_emr" -> 4
      [] name = "generate_suggestions" -> 5
      [] OTHER -> 0

\* the stage calls of the request so far, in the order they were made
StageCalls == SelectSeq(asr.calls, LAMBDA name : StageRank(name) > 0)

\* the stage the request is waiting in, 0 when it waits in none
RunningStage ==
    CASE asr.pc = "detect_language_from_audio" -> 1
      [] asr.pc = "run_pipeline_async" -> 2
      [] asr.pc = "translate_with_gemini" -> 3
      [] asr.pc = "extract_emr" -> 4
      [] asr.pc = "generate_suggestions" -> 5
      [] OTHER -> 0

\* what the stage of rank r leaves behind once it has returned or raised
StageOver(r) ==
    CASE r = 1 -> d_pc = "idle" /\ asr.effective_language \in {"en", "ml"}
      [] r = 2 -> asr.run_failure # "pending"
      [] r = 3 -> asr.translated # Pending
      [] r = 4 -> asr.emr_data # EmptyDict \/ asr.suggestions # EmptyDict
      [] r = 5 -> asr.suggested # Pending

\* C34: the stages of a request are called in the order detection,
\* transcription, translation, extraction, suggestion generation, each at most
\* once; a stage is called only when every stage called before it is over and
\* the transcription has been made; only the last stage called can be the one
\* the request waits in; and the response is built when every stage called,
\* and so every remote call, is over.
C34_StagesInOrder ==
    LET n == Len(StageCalls) IN
    /\ \A i, j \in 1..n : i < j => StageRank(StageCalls[i]) < StageRank(StageCalls[j])
    /\ \A i \in 1..(n - 1) : StageOver(StageRank(StageCalls[i]))
    /\ (n > 0 /\ StageRank(StageCalls[n]) > 2) => StageRank(StageCalls[1]) <= 2
    /\ Called("generate_suggestions") => Called("extract_emr")
    /\ RunningStage # 0 => (n > 0 /\ StageRank(StageCalls[n]) = RunningStage
                                  /\ (RunningStage # 5 => ~StageOver(RunningStage)))
    /\ \A i \in 1..Len(asr.calls) :
           asr.calls[i] = "call_gemini_api" => (i > 1 /\ StageRank(asr.calls[i - 1]) \in 3..5)
    /\ asr.pc = "responded" =>
           /\ n > 0
           /\ \A i \in 1..n : StageOver(StageRank(StageCalls[i]))
           /\ asr.response.status = "success"

C34_Witness ==
    /\ asr.pc = "responded"
    /\ asr.calls = <<"detect_language_from_audio", "run_pipeline_async:whisper_ml",
                     "translate_with_gemini", "call_gemini_api",
                     "extract_emr", "call_gemini_api",
                     "generate_suggestions", "call_gemini_api">>
    /\ asr.suggested.tag = "text"

(***************************************************************************)
(* The decision of detect_language_from_audio as one condition.            *)
(***************************************************************************)
\* langs[0].lang, or None (here "null")
GuessValues == {Guess(c) : c \in ClassifierOutcomes}

\* the decision table without its rows 3 to 6
ShortTable(m, e) ==
    << DecisionTable(m, e)[1], DecisionTable(m, e)[2], DecisionTable(m, e)[7] >>

\* C35: the call returns "ml" exactly when the ML output was classified "ml"
\* and the EN output was not classified "en"; it returns "en" for every other
\* pair, the pair ("ml", "en") included, and on every early return; rows 3 to 6
\* of the decision table are never the first matching row, so the table
\* without them decides the same.
C35_MalayalamIffFirstRow ==
    /\ Detected =>
           /\ d_ret = "ml" <=> (mlGuess = "ml" /\ enGuess # "en")
           /\ d_ret = "en" <=> ~(mlGuess = "ml" /\ enGuess # "en")
           /\ d_ret = FirstMatch(ShortTable(mlGuess, enGuess))
    /\ \A m, e \in GuessValues :
           /\ FirstMatch(DecisionTable(m, e)) = FirstMatch(ShortTable(m, e))
           /\ \A r \in 3..6 :
                  DecisionTable(m, e)[r].match =>
                      (DecisionTable(m, e)[1].match \/ DecisionTable(m, e)[2].match)

C35_Witness == Decided /\ mlGuess = "ml" /\ enGuess = "en" /\ d_ret = "en"

(***************************************************************************)
(* The transcription run of a request (asr_routes.py:128-179).             *)
(***************************************************************************)
\* the run_pipeline_async calls the route made on the whole recording
FullAudioRuns == SelectSeq(asr.calls, LAMBDA name : StageRank(name) = 2)

\* the registry key of the model for a language
ModelKeyFor(lang) == IF lang = "ml" THEN "whisper_ml" ELSE "whisper_en"

\* C36: a request makes at most one transcription run on the whole recording,
\* with the model of its effective language; every success response has
\* effective language "en" or "ml" and comes from a request that made exactly
\* one such run, with whisper_ml for "ml" and whisper_en for "en", and that run
\* is where its raw transcription comes from.
C36_OneRunWithMatchingModel ==
    /\ Len(FullAudioRuns) <= 1
    /\ Len(FullAudioRuns) = 1 =>
           /\ asr.effective_language \in {"en", "ml"}
           /\ asr.transcription_model_key = ModelKeyFor(asr.effective_language)
           /\ (FullAudioRuns[1] = "run_pipeline_async:whisper_ml")
                  <=> asr.effective_language = "ml"
           /\ (FullAudioRuns[1] = "run_pipeline_async:whisper_en")
                  <=> asr.effective_language = "en"
    /\ Len(FullAudioRuns) = 0 => asr.raw_transcription = <<>> /\ asr.response = NoResponse
    /\ asr.pc = "responded" =>
           /\ asr.response.status = "success"
           /\ asr.response.effective_language \in {"en", "ml"}
           /\ asr.response.effective_language = asr.effective_language
           /\ Len(FullAudioRuns) = 1
           /\ asr.run_failure # "pending"
           /\ asr.response.raw_transcription = asr.raw_transcription

C36_Witness ==
    /\ asr.pc = "responded"
    /\ asr.response.detection_method = "automatic"
    /\ asr.response.effective_language = "ml"
    /\ asr.response.raw_transcription # <<>>
    /\ asr.run_failure = "ok"
    /\ asr.transcription_model_key = "whisper_ml"
    /\ FullAudioRuns = <<"run_pipeline_async:whisper_ml">>
    /\ Called("detect_language_from_audio")

(***************************************************************************)
(* One request together with the call_gemini_api calls made for it.  The   *)
(* three callers (gemini_api.py:152, 190, 258) pass the prompt only, so    *)
(* every call runs with the default retries and delay of line 10.  The     *)
(* request is handled beside a task that has already returned.             *)
(***************************************************************************)
DefaultRetries == 2
DefaultDelay == 2

GeminiStages == {"translate_with_gemini", "extract_emr", "generate_suggestions"}

\* what the text of a well-formed answer can be for the stage waiting
RemoteTexts(pc) ==
    CASE pc = "translate_with_gemini" -> { <<"chest", " ", "pain">> }
      [] pc = "extract_emr" -> { <<"Allergies", ":", " ", "penicillin">>, <<"garbage">> }
      [] OTHER -> { <<"differential", " ", "diagnosis", ":", " ", "angina">> }

\* the route goes on from the stage it waits in
StageReturn(f, gres) ==
    CASE f.pc = "translate_with_gemini" -> Translated(f, gres)
      [] f.pc = "extract_emr" -> Extracted(f, gres)
      [] OTHER -> Suggested(f, gres)

\* lines 152, 190, 258: await call_gemini_api(prompt)
remote_call_enter ==
    /\ asr.pc \in GeminiStages
    /\ asr.calls[Len(asr.calls)] = "call_gemini_api"
    /\ g_pc = "idle"
    /\ g_pc' = "call" /\ retries' = DefaultRetries /\ delay' = DefaultDelay
    /\ attempt' = 0 /\ g_wait' = 0 /\ g_trace' = <<>> /\ g_ret' = Pending
    /\ UNCHANGED g_url
    /\ UNCHANGED not_gvars

\* call_gemini_api has returned or raised; the stage and the route go on
remote_call_return ==
    /\ asr.pc \in GeminiStages
    /\ g_pc \in {"done", "raised"}
    /\ \E gres \in {NoneRet, [tag |-> "raise", text |-> <<>>]}
                   \cup {TextRet(t) : t \in RemoteTexts(asr.pc)} :
         /\ gres.tag = IF g_pc = "raised" THEN "raise" ELSE g_ret.tag
         /\ asr' = [StageReturn(asr, gres) EXCEPT
                        !.http_attempts = asr.http_attempts + Len(g_trace)]
    /\ g_pc' = "idle" /\ retries' = 0 /\ delay' = 0
    /\ attempt' = 0 /\ g_wait' = 0 /\ g_trace' = <<>> /\ g_ret' = Pending
    /\ UNCHANGED g_url
    /\ UNCHANGED <<asr_models, dvars, xvars, sched, rvars>>

InitRemote ==
    /\ RoomsIdle
    /\ AllLoaded /\ DetectIdle /\ ExtractIdle
    /\ cur = 1
    /\ parked = <<IdleFrame, IdleDetect, IdleGemini>>
    /\ g_pc = "idle" /\ g_url \in BOOLEAN /\ retries = 0 /\ attempt = 0 /\ delay = 0
    /\ g_wait = 0 /\ g_trace = <<>> /\ g_ret = Pending
    /\ \E t \in Tasks \ {GeminiTask} : asr = t[1]

NextRemote ==
    \/ asr_validate
    \/ asr_loaded
    \/ detect_enter
    \/ \E k \in ModelKeys : detect_run_finish(k)
    \/ detect_resolve
    \/ asr_detected
    \/ asr_transcribed
    \/ remote_call_enter
    \/ call_gemini_api_enter
    \/ call_gemini_api_attempt
    \/ call_gemini_api_wake
    \/ remote_call_return

SpecRemote == InitRemote /\ [][NextRemote]_vars

\* the places in asr.calls of the remote calls made so far
RemoteCallPlaces == {i \in 1..Len(asr.calls) : asr.calls[i] = "call_gemini_api"}

\* the HTTP attempts issued so far for the request
HttpAttempts == asr.http_attempts + Len(g_trace)

\* C37: a request makes at most three call_gemini_api calls, each right
\* after the call of the stage it is made for, for translation, extraction
\* and suggestion generation in this order and at most once each; every one
\* of them runs with the default retries, and the HTTP attempts issued for
\* the request never exceed retries + 1 for each call made, so never
\* 3 * (retries + 1).
C37_ThreeCallsBoundAttempts ==
    /\ Cardinality(RemoteCallPlaces) <= 3
    /\ \A i \in RemoteCallPlaces : i > 1 /\ StageRank(asr.calls[i - 1]) \in 3..5
    /\ \A i, j \in RemoteCallPlaces :
           i < j => StageRank(asr.calls[i - 1]) < StageRank(asr.calls[j - 1])
    /\ g_pc # "idle" => (retries = DefaultRetries /\ asr.pc \in GeminiStages)
    /\ HttpAttempts <= Cardinality(RemoteCallPlaces) * (DefaultRetries + 1)
    /\ HttpAttempts <= 3 * (DefaultRetries + 1)

C37_Witness ==
    /\ asr.pc = "responded"
    /\ Cardinality(RemoteCallPlaces) = 3
    /\ asr.http_attempts = 3 * (DefaultRetries + 1)
    /\ asr.suggested = NoneRet

(***************************************************************************)
(* The sleeps of call_gemini_api.                                          *)
(***************************************************************************)
\* the kinds of failure after which the loop can sleep
RetriedKinds ==
    MissingKinds \cup {"http429", "http5xx", "timeout", "conn_error", "unexpected", "bad_shape"}

\* C38: the call sleeps only after an attempt that is not its last: every
\* attempt followed by a sleep has attempt < retries and is followed, once the
\* sleep is over, by the attempt with the next number; while it sleeps another
\* attempt is still due; and the attempt after which it returned or raised was
\* not followed by a sleep.  This holds for every kind of failure.
C38_NoSleepAfterFinalAttempt ==
    /\ g_pc = "sleep" => (attempt < retries /\ g_trace[Len(g_trace)].slept)
    /\ \A i \in 1..Len(g_trace) :
           g_trace[i].slept =>
               /\ g_trace[i].out.kind \in RetriedKinds
               /\ g_trace[i].attempt < retries
               /\ i < Len(g_trace) => g_trace[i + 1].attempt = g_trace[i].attempt + 1
               /\ i = Len(g_trace) =>
                      \/ g_pc = "sleep" /\ attempt = g_trace[i].attempt
                      \/ g_pc = "post" /\ attempt = g_trace[i].attempt + 1
    /\ (g_pc \in {"done", "raised"} /\ g_trace # <<>>) => ~g_trace[Len(g_trace)].slept

C38_Witness ==
    /\ g_pc = "done" /\ retries = 2 /\ Len(g_trace) = 3 /\ g_ret = NoneRet
    /\ g_trace[1].out.kind = "unexpected" /\ g_trace[1].slept
    /\ g_trace[2].out.kind = "conn_error" /\ g_trace[2].slept
    /\ g_trace[3].out.kind = "timeout" /\ ~g_trace[3].slept

(***************************************************************************)
(* The rooms on their own: sessions join, signal and talk.                 *)
(***************************************************************************)
InitRooms ==
    /\ AllLoaded /\ GeminiIdle /\ DetectIdle /\ ExtractIdle /\ AsrIdle /\ Alone
    /\ RoomsIdle

SpecRooms == InitRooms /\ [][NextRooms]_vars

\* the event handled last was a 'signal' or a 'message'
Relayable == last_event.name \in {"signal", "message"}

\* the session of the event handled last is recorded as a user of its room
SenderIsMember ==
    /\ last_event.room_id \in DOMAIN active_rooms
    /\ last_event.sid \in Keys(active_rooms[last_event.room_id].users)

\* C39: handling a 'signal' or a 'message' emits at most one event, of the
\* same name and addressed to the room named in it, and only when that room is
\* in the registry with the sending session among its users; in every other
\* case it emits nothing; and the step that handles a 'signal' or a 'message'
\* leaves the registry, and the Socket.IO rooms, as they were.
C39_RelayOnlyFromMembers ==
    /\ [](Relayable =>
            /\ Len(emitted) <= 1
            /\ emitted # <<>> =>
                   /\ SenderIsMember
                   /\ emitted[1].event = last_event.name
                   /\ emitted[1].to = last_event.room_id
                   /\ emitted[1].payload.user_id = last_event.sid
            /\ ~SenderIsMember => emitted = <<>>)
    /\ [][Relayable' => (active_rooms' = active_rooms /\ sio_rooms' = sio_rooms)]_rvars

C39_Witness ==
    /\ last_event = Event("signal", "sid2", "ROOM01")
    /\ "ROOM01" \in DOMAIN active_rooms
    /\ Keys(active_rooms["ROOM01"].users) = {"sid1", "sid2"}
    /\ "ROOM02" \in DOMAIN active_rooms
    /\ ~InRoom(active_rooms, "ROOM02", "sid2")
    /\ emitted = <<Emit("signal", "ROOM01", FALSE,
                        [user_id |-> "sid2", signal |-> [kind |-> "offer"]])>>

====
